---- MODULE Spec2Model ----
(***************************************************************************)
(* Discovery / classification / dispatch engine of automaticReportTool     *)
(* (src/src/pollingv4.py, with core.py as the renderer it calls).          *)
(*                                                                         *)
(* Names are kept from the source.  Strings of the program that the code   *)
(* takes apart (composite names, titles, file names, the wafer/badge       *)
(* directory name) are sequences of tokens; a token is either one          *)
(* character ("A", "a", "_", " ") or a whole word none of whose characters *)
(* is one of the single-character tokens ("YIELD", "EWS1", ".html"), so    *)
(* that Python's substring test on the strings is the sub-sequence test on *)
(* the token sequences.                                                    *)
(***************************************************************************)
EXTENDS Integers, Sequences, FiniteSets, TLC

\* ------------------------------------------------------------- bounds
\* Number of cycles of run_continuous the model follows.
MaxCycles == 2

\* Number of external calls (svn, the renderer) that fail in one behaviour.
MaxFailures == 1

\* Calls of the Report Stage in a row, when it is run on its own.
MaxRuns == 2

\* Calls of the Conversion Stage in a row, when it is run on its own.
MaxConversions == 2

\* Length of a composite name, in tokens, when a function is called on its own.
MaxNameLen == 3

\* Conversion workers of the worker-pool topology that the model follows
\* (main starts ten of them, all alike).
NumStdf2csv == 2

\* -------------------------------------------------- program constants
\* check_csv_folder: "if len(csv_files) > 8".
CsvThreshold == 8

\* pollingv2.main: "for _ in range(1)", the report workers it starts.
NumCsv2report == 1

\* ------------------------------------------------------ the directory tree
\* Three leaf directories under the watch path:
\*   44E\44EZ\EWS1\Q1\Q1_04\x30      (wafer flow, sample data)
\*   44E\44EZ\EWS1\Q1\Q1_04\VOLUME   (wafer flow, volume data)
\*   44E\44EZ\FT\QFP64\B1\VOLUME     (package flow, badge directory B1)
Leaves == {"EWS1/Q1_04/x30", "EWS1/Q1_04/VOLUME", "FT/B1/VOLUME"}

\* The flow directory of a leaf (path component 7 of the raw-file path).
LeafFlow(d) == IF d = "FT/B1/VOLUME" THEN "FT" ELSE "EWS1"

\* The subfolder name of a leaf, "x30" or "VOLUME" (path component 10).
LeafSubfolder(d) == IF d = "EWS1/Q1_04/x30" THEN "x30" ELSE "VOLUME"

\* The wafer / badge directory name of a leaf (path component 9), as tokens.
LeafWaferBadge(d) == IF d = "FT/B1/VOLUME" THEN <<"B1">> ELSE <<"Q1", "_", "04">>

\* The VOLUME leaf under the same wafer / badge directory.
VolumeSibling(d) == IF d = "EWS1/Q1_04/x30" THEN "EWS1/Q1_04/VOLUME" ELSE d

\* ------------------------------------------------------ string operations
\* str.upper() on one token.
UpperTok(t) ==
    CASE t = "a" -> "A"
      [] t = "x30" -> "X30"
      [] t = "volume" -> "VOLUME"
      [] OTHER -> t

\* str.lower() on one token.
LowerTok(t) ==
    CASE t = "A" -> "a"
      [] t = "B" -> "b"
      [] t = "X30" -> "x30"
      [] t = "VOLUME" -> "volume"
      [] t = "Anaflow" -> "anaflow"
      [] OTHER -> t

\* str.upper() on a string.
Upper(s) == [i \in 1..Len(s) |-> UpperTok(s[i])]

\* str.replace('_', ' ').
ReplaceUnderscore(s) == [i \in 1..Len(s) |-> IF s[i] = "_" THEN " " ELSE s[i]]

\* Python's "x in y" on strings.
IsSubstring(x, y) ==
    \E i \in 0..(Len(y) - Len(x)) : SubSeq(y, i + 1, i + Len(x)) = x

\* Indices of the underscores of a string, in order.
UnderscoreAt(s) == {i \in 1..Len(s) : s[i] = "_"}

\* The smallest element of a non-empty set of integers.
MinOf(S) == CHOOSE x \in S : \A y \in S : x <= y

\* ------------------------------------------------- ParameterExtractor
\* get_parameter / get_parameter_from_stdf_path: the unpacking of
\* (waf_badge + "_TTTT").split("_", 2) into three names raises ValueError
\* unless the split yields three parts, i.e. unless waf_badge holds an
\* underscore.
ParameterRaises(d) == UnderscoreAt(LeafWaferBadge(d)) = {}

\* The parameter set of a raw-file path (only for a path that parses).
get_parameter(d) ==
    LET wb == LeafWaferBadge(d) \o <<"_", "TTTT">>
        i1 == MinOf(UnderscoreAt(wb))
        i2 == MinOf(UnderscoreAt(wb) \ {i1})
    IN  [ FLOW  |-> UpperTok(LeafFlow(d)),
          TYPE  |-> UpperTok(LeafSubfolder(d)),
          LOT   |-> Upper(SubSeq(wb, 1, i1 - 1)),
          WAFER |-> SubSeq(wb, i1 + 1, i2 - 1),
          COM   |-> <<>>,
          TITLE |-> <<>>,
          path  |-> d ]

\* get_parameter_from_condition_path: never raises; the flow is the
\* directory above CONDITION ("UNKNOWN" when the path holds none), every
\* other name is "CONDITION".
get_parameter_from_condition_path(f) ==
    [ FLOW  |-> IF f = "none" THEN "UNKNOWN" ELSE "EWS1",
      TYPE  |-> "CONDITION",
      LOT   |-> <<"CONDITION">>,
      WAFER |-> <<"CONDITION">>,
      COM   |-> <<>>,
      TITLE |-> <<>>,
      path  |-> f ]

\* ------------------------------------------------- ProcessingWorker
\* create_title.
create_title(parameter, composite, process_type) ==
    IF process_type = "CONDITION2REPORT"
    THEN Upper(ReplaceUnderscore(composite))
            \o <<" ", UpperTok(parameter.FLOW), " ", "condition">>
    ELSE Upper(ReplaceUnderscore(composite))
            \o <<" ", UpperTok(parameter.FLOW), " ", LowerTok(parameter.TYPE)>>

\* ------------------------------------------------- CompositeManager
\* should_skip_composite without the rules of the processing type.
should_skip_composite_names_only(parameter, process_type) ==
    parameter.COM \in {<<"INIT">>, <<"FLH_TOOLS">>}

\* should_skip_composite without the names skipped for every directory.
should_skip_composite_type_rules_only(parameter, process_type) ==
    LET composite == parameter.COM
        param_type == UpperTok(parameter.TYPE)
    IN  IF process_type = "CSV2REPORT"
        THEN \/ (param_type = "X30" /\ IsSubstring(<<"TTIME">>, composite))
             \/ (param_type = "X30" /\ IsSubstring(<<"YIELD">>, composite))
        ELSE IF process_type = "CONDITION2REPORT"
        THEN composite \in {<<"TTIME">>, <<"YIELD">>}
        ELSE FALSE

\* should_skip_composite.
should_skip_composite(parameter, process_type) ==
    LET composite == parameter.COM
        param_type == UpperTok(parameter.TYPE)
    IN  IF composite \in {<<"INIT">>, <<"FLH_TOOLS">>}
        THEN TRUE
        ELSE IF process_type = "CSV2REPORT"
        THEN \/ (param_type = "X30" /\ IsSubstring(<<"TTIME">>, composite))
             \/ (param_type = "X30" /\ IsSubstring(<<"YIELD">>, composite))
        ELSE IF process_type = "CONDITION2REPORT"
        THEN composite \in {<<"TTIME">>, <<"YIELD">>}
        ELSE FALSE

\* ------------------------------------------------- FileProcessor
\* get_report_path: a path below a leaf's (or a CONDITION directory's)
\* Report directory is [leaf, sub, file], sub being "" for the Report
\* directory itself.
get_report_path(base, parameter, process_type) ==
    IF process_type = "CSV2REPORT"
    THEN IF \/ IsSubstring(<<"TTIME">>, parameter.COM)
            \/ IsSubstring(<<"YIELD">>, parameter.COM)
         THEN [leaf |-> base, sub |-> "", file |-> parameter.TITLE \o <<".html">>]
         ELSE [leaf |-> base, sub |-> UpperTok(parameter.TYPE),
               file |-> parameter.TITLE \o <<".html">>]
    ELSE [leaf |-> base, sub |-> "", file |-> parameter.TITLE \o <<".html">>]

\* ------------------------------------------------- core.py, the renderer
\* convert_notebook_to_html: the file the notebook conversion writes for the
\* parameter set it is given (a deep copy, whose TYPE process_yield and
\* process_ttime have set to "YIELD" / "TTIME").  dir_output is found by
\* cutting the raw file's directory at LOT + "_" + WAFER; when that name does
\* not occur in it the output lands outside the tree ("elsewhere").  The
\* share is a Windows one: the directory x30 and the name X30 are the same.
convert_notebook_to_html(parameter) ==
    LET lot_wafer == parameter.LOT \o <<"_">> \o parameter.WAFER
        inside == IsSubstring(lot_wafer, LeafWaferBadge(parameter.path))
    IN  IF parameter.TYPE \in {"YIELD", "TTIME"}
        THEN [leaf |-> IF inside THEN VolumeSibling(parameter.path) ELSE "elsewhere",
              sub  |-> "",
              file |-> parameter.TITLE \o <<".html">>]
        ELSE [leaf |-> IF inside THEN parameter.path ELSE "elsewhere",
              sub  |-> UpperTok(parameter.TYPE),
              file |-> parameter.TITLE \o <<".html">>]

\* process_composite on the deep copy: process_ttime / process_yield set
\* TYPE before exec; process_yield returns at once for TYPE X30; every
\* other composite goes through process_single_composite with TYPE as is.
\* The result says whether a conversion is started, and with which
\* parameter set.
process_composite(parameter) ==
    IF Upper(parameter.COM) = <<"TTIME">>
    THEN [started |-> TRUE, parameter |-> [parameter EXCEPT !.TYPE = "TTIME"]]
    ELSE IF Upper(parameter.COM) = <<"YIELD">>
    THEN IF UpperTok(parameter.TYPE) = "X30"
         THEN [started |-> FALSE, parameter |-> parameter]
         ELSE [started |-> TRUE, parameter |-> [parameter EXCEPT !.TYPE = "YIELD"]]
    ELSE [started |-> TRUE, parameter |-> parameter]

\* ------------------------------------------------- the Composite Catalog
\* The supplemental composites that composites.cnf of a product-cut / flow
\* can hold ("Composite := <name>" lines), as the repository answers them.
SvnCatalogs ==
    { << <<"INIT">> >>,
      << <<"A">>, <<"A", "B">> >>,
      << <<"A", "_", "B">> >> }

VARIABLES
    svn_content,     \* composites.cnf: the supplemental composites (never changes)
    marker,          \* marker[d]: "REPORT DONE.txt" is a file of leaf d
    rawCount,        \* rawCount[d]: number of .std / .stdf files in leaf d
    csvCount,        \* csvCount[d]: number of .csv files in d\csv (0: no csv directory)
    reportDir,       \* reportDir[d]: d\Report is a directory
    files,           \* the .html files below the Report directories
    condDir,         \* EWS1\CONDITION is a directory
    condMarker,      \* "CONDITION_REPORT_DONE.txt" is a file of EWS1\CONDITION
    pc,              \* where run_continuous is
    cycle_count,     \* run_continuous: cycle_count
    wi,              \* poll_directory: position in the walk
    stdf_list,       \* poll_directory: stdf_list
    csv_list,        \* poll_directory: csv_list
    condition_list,  \* poll_directory: condition_list
    seen_paths,      \* poll_directory: seen_paths
    idx,             \* process_*_files: position in the list being dispatched
    run,             \* ReportWorker.process_file: its locals, and what it did
    failures,        \* external calls that have failed so far
    markerBy,        \* markerBy[d]: who wrote the marker of leaf d that is present
    convQueued,      \* convQueued[d]: how often d was put on stdf_list, all passes
    csv_folder,      \* csv_folder[d]: the .csv files of d\csv, by name
    stdf_folder,     \* stdf_folder[d]: the .csv files lying in leaf d itself
    queue_stdf2csv,  \* worker pools: the queue of raw-file paths to convert
    queue_csv2report,\* worker pools: the queue of raw-file paths to report on
    stdf2csv_procs,  \* worker pools: where each conversion worker is
    csv2report_procs,\* worker pools: where each report worker is
    call,            \* a function called on its own: its arguments
    returned,        \* a function called on its own: what it returned
    log              \* one log file, its backups and the handler that writes it

fs == <<marker, rawCount, csvCount, reportDir, files, condDir, condMarker>>
loop == <<pc, cycle_count, wi, stdf_list, csv_list, condition_list, seen_paths, idx, run,
          failures>>
vars == <<svn_content, marker, rawCount, csvCount, reportDir, files, condDir,
          condMarker, pc, cycle_count, wi, stdf_list, csv_list, condition_list,
          seen_paths, idx, run, failures, markerBy, convQueued, csv_folder,
          stdf_folder, queue_stdf2csv, queue_csv2report, stdf2csv_procs,
          csv2report_procs, call, returned, log>>

\* What only the Conversion Stage changes.
conv == <<csv_folder, stdf_folder>>

\* What only the worker-pool topology has.
pool == <<queue_stdf2csv, queue_csv2report, stdf2csv_procs, csv2report_procs>>

\* What only the call of a function on its own has.
pure == <<call, returned, log>>

\* get_composite_list: the two fixed composites followed by the names found
\* in composites.cnf; [] when svn exits with a failure (CalledProcessError).
get_composite_list(outcome) ==
    IF outcome = "ok"
    THEN << <<"YIELD">>, <<"TTIME">> >> \o svn_content
    ELSE << >>

\* The outcomes the svn call can have now.
SvnOutcomes ==
    IF failures < MaxFailures THEN {"ok", "CalledProcessError"} ELSE {"ok"}

\* The parameter set of leaf d for one composite, as process_file sets it.
ParameterFor(d, composite) ==
    [get_parameter(d) EXCEPT
        !.COM = composite,
        !.TITLE = create_title(get_parameter(d), composite, "CSV2REPORT")]

\* The files the Report Stage can produce below leaf d's Report directory.
ToolFiles(d) ==
    IF ParameterRaises(d) THEN {}
    ELSE LET all == get_composite_list("ok")
         IN  { get_report_path(d, ParameterFor(d, all[i]), "CSV2REPORT") :
                 i \in { j \in 1..Len(all) :
                           ~should_skip_composite(ParameterFor(d, all[j]), "CSV2REPORT") } }

\* The report files of the composites on the skip-list of leaf d: files the
\* Report Stage never writes, which can be there all the same.
SkipListFiles(d) ==
    IF ParameterRaises(d) THEN {}
    ELSE LET all == get_composite_list("ok")
         IN  { get_report_path(d, ParameterFor(d, all[i]), "CSV2REPORT") :
                 i \in { j \in 1..Len(all) :
                           should_skip_composite(ParameterFor(d, all[j]), "CSV2REPORT") } }

\* The listing of EWS1\CONDITION when it exists, in os.listdir order: one
\* condition artifact and one file that is none.
ConditionListing == << "Anaflow.csv", "notes.csv" >>

\* The name of a file of the CONDITION directory, as tokens.
FileName(f) == IF f = "Anaflow.csv" THEN <<"Anaflow", ".csv">> ELSE <<"notes", ".csv">>

\* The CONDITION directory of flow EWS1, as the base of report paths.
ConditionDir == "EWS1/CONDITION"

\* ------------------------------------------------- initial states
\* The content a leaf directory can have when the tool starts.
LeafStates(d) ==
    { s \in [ marker : BOOLEAN, raw : 0..2,
              csv : {0, CsvThreshold, CsvThreshold + 1},
              rep : BOOLEAN,
              html : { h \cup x : h \in SUBSET ToolFiles(d),
                                  x \in {{}, SkipListFiles(d)} } ] :
        s.html # {} => s.rep }

\* A leaf that was just deposited: one raw file and nothing else (not yet
\* converted), or one raw file and its converted output.
FreshState(converted) ==
    [ marker |-> FALSE, raw |-> 1,
      csv |-> IF converted THEN CsvThreshold + 1 ELSE 0,
      rep |-> FALSE, html |-> {} ]

\* process_file before its first call: no item, nothing done.
IdleRun ==
    [ phase |-> "idle", process_type |-> "none", path |-> "none",
      parameter |-> get_parameter_from_condition_path("none"),
      composite_list |-> << >>, k |-> 0,
      checks |-> 0, renders |-> << >>, wrote |-> FALSE,
      allExist0 |-> FALSE, files0 |-> {}, reportDir0 |-> [d \in Leaves |-> FALSE],
      marker0 |-> FALSE ]

\* The conversion workers and the report workers of the worker pools.
Stdf2csvWorkers == 1..NumStdf2csv

\* A main that starts two report workers.
Csv2reportWorkers_two == 1..(NumCsv2report + 1)

Csv2reportWorkers == 1..NumCsv2report

\* A worker that is about to read its queue.
IdleWorker == [at |-> "get", path |-> "none"]

\* Either one leaf holds any content, the others are fresh and EWS1 has no
\* CONDITION directory; or every leaf is fresh and EWS1 has a CONDITION
\* directory, marked or not.
InitTool ==
    /\ svn_content \in SvnCatalogs
    /\ \E converted \in BOOLEAN :
       \/ \E focus \in Leaves :
          \E st \in LeafStates(focus) :
             LET s == [d \in Leaves |-> IF d = focus THEN st ELSE FreshState(converted)]
             IN  /\ marker = [d \in Leaves |-> s[d].marker]
                 /\ rawCount = [d \in Leaves |-> s[d].raw]
                 /\ csvCount = [d \in Leaves |-> s[d].csv]
                 /\ reportDir = [d \in Leaves |-> s[d].rep]
                 /\ files = UNION { s[d].html : d \in Leaves }
                 /\ condDir = FALSE
                 /\ condMarker = FALSE
       \/ /\ marker = [d \in Leaves |-> FALSE]
          /\ rawCount = [d \in Leaves |-> 1]
          /\ csvCount = [d \in Leaves |-> FreshState(converted).csv]
          /\ reportDir = [d \in Leaves |-> FALSE]
          /\ files = {}
          /\ condDir = TRUE
          /\ condMarker \in BOOLEAN
    /\ pc = "sleep"
    /\ cycle_count = 0
    /\ wi = 0
    /\ stdf_list = << >>
    /\ csv_list = << >>
    /\ condition_list = << >>
    /\ seen_paths = {}
    /\ idx = 0
    /\ run = IdleRun
    /\ failures = 0
    /\ markerBy = [d \in Leaves |-> IF marker[d] THEN "operator" ELSE "none"]
    /\ convQueued = [d \in Leaves |-> 0]
    /\ csv_folder = [d \in Leaves |-> 1..csvCount[d]]
    /\ stdf_folder = [d \in Leaves |-> {}]
    /\ queue_stdf2csv = << >>
    /\ queue_csv2report = << >>
    /\ stdf2csv_procs = [w \in Stdf2csvWorkers |-> IdleWorker]
    /\ csv2report_procs = [w \in Csv2reportWorkers |-> IdleWorker]

\* ProcessingConfig.max_lines_per_log, here a few lines instead of 1000.
max_lines == 3

\* The records emitted in a run, and the lines of a log file found at start.
MaxRecords == 8

MaxOldLines == 2

\* ProcessingConfig.backup_count.
backup_count == 1

\* A file that is not there.
AbsentFile == [exists |-> FALSE, lines |-> << >>]

\* The log file (0) and its backups <name>.1, <name>.2, ...: none is there,
\* and no handler has been made.
NoLog ==
    [ files      |-> [i \in 0..(backup_count + 1) |-> AbsentFile],
      line_count |-> 0,
      emitted    |-> 0,
      rollovers  |-> 0,
      rotated    |-> << >> ]

\* No call of a function on its own, and nothing returned.
NoCall == [path |-> "none", composite |-> << >>]

NoReturn ==
    [ status |-> "none", TITLE |-> << >>, skipped |-> FALSE,
      report_path |-> [leaf |-> "none", sub |-> "", file |-> << >>] ]

\* The tool has been started; no function is called on its own.
Init ==
    /\ InitTool
    /\ call = NoCall
    /\ returned = NoReturn
    /\ log = NoLog

\* A walk that comes to a leaf twice (overlapping subtrees).
Walk_overlapping ==
    << [kind |-> "condition", at |-> "EWS1"],
       [kind |-> "leaf", at |-> "EWS1/Q1_04/x30"],
       [kind |-> "leaf", at |-> "EWS1/Q1_04/VOLUME"],
       [kind |-> "leaf", at |-> "EWS1/Q1_04/x30"],
       [kind |-> "condition", at |-> "FT"],
       [kind |-> "leaf", at |-> "FT/B1/VOLUME"] >>

\* ------------------------------------------------- DirectoryPoller
\* The order in which one pass visits the tree: per flow directory
\* check_condition_files, then each wafer / badge directory's subfolders
\* in the order of _process_wafer_subfolders, "x30" before "VOLUME".
Walk ==
    << [kind |-> "condition", at |-> "EWS1"],
       [kind |-> "leaf", at |-> "EWS1/Q1_04/x30"],
       [kind |-> "leaf", at |-> "EWS1/Q1_04/VOLUME"],
       [kind |-> "condition", at |-> "FT"],
       [kind |-> "leaf", at |-> "FT/B1/VOLUME"] >>

\* check_condition_files, the test on one file name: starts with "anaflow"
\* and ends with ".csv" or ".html", case-insensitively.
IsConditionArtifact(f) ==
    LET name == [i \in 1..Len(FileName(f)) |-> LowerTok(FileName(f)[i])]
    IN  /\ name[1] = "anaflow"
        /\ name[Len(name)] \in {".csv", ".html"}

\* check_condition_files without its test of the completion marker.
check_condition_files_no_marker_test(flow) ==
    IF flow = "EWS1" /\ condDir
    THEN SelectSeq(ConditionListing, IsConditionArtifact)
    ELSE << >>

\* check_condition_files: the paths it appends to condition_list for a flow
\* directory.  Only EWS1 has a CONDITION directory in this tree.
check_condition_files(flow) ==
    IF flow = "EWS1" /\ condDir
    THEN SelectSeq(ConditionListing,
                   LAMBDA f : IsConditionArtifact(f) /\ ~condMarker)
    ELSE << >>

\* check_csv_folder without its first test, the one of the completion marker.
check_csv_folder_no_marker_test(d) ==
    IF rawCount[d] = 1
    THEN IF csvCount[d] > CsvThreshold
         THEN [ready |-> TRUE, append |-> FALSE]
         ELSE [ready |-> FALSE, append |-> d \notin seen_paths]
    ELSE [ready |-> FALSE, append |-> FALSE]

\* check_csv_folder going on to the report check after it queued the path.
check_csv_folder_falls_through(d) ==
    IF marker[d]
    THEN [ready |-> FALSE, append |-> FALSE]
    ELSE IF rawCount[d] = 1
    THEN IF csvCount[d] > CsvThreshold
         THEN [ready |-> TRUE, append |-> FALSE]
         ELSE [ready |-> TRUE, append |-> d \notin seen_paths]
    ELSE [ready |-> FALSE, append |-> FALSE]

\* check_csv_folder taking the first raw file when there are several.
check_csv_folder_any_raw(d) ==
    IF marker[d]
    THEN [ready |-> FALSE, append |-> FALSE]
    ELSE IF rawCount[d] >= 1
    THEN IF csvCount[d] > CsvThreshold
         THEN [ready |-> TRUE, append |-> FALSE]
         ELSE [ready |-> FALSE, append |-> d \notin seen_paths]
    ELSE [ready |-> FALSE, append |-> FALSE]

\* check_csv_folder sending a leaf to conversion whatever its csv directory
\* holds, output that this tool did not produce included.
check_csv_folder_converts_always(d) ==
    IF marker[d]
    THEN [ready |-> FALSE, append |-> FALSE]
    ELSE IF rawCount[d] = 1
    THEN IF csvCount[d] > CsvThreshold
         THEN [ready |-> TRUE, append |-> d \notin seen_paths]
         ELSE [ready |-> FALSE, append |-> d \notin seen_paths]
    ELSE [ready |-> FALSE, append |-> FALSE]

\* check_csv_folder: what it returns (ready) and whether it appends the
\* raw-file path to stdf_list.
check_csv_folder(d) ==
    IF marker[d]
    THEN [ready |-> FALSE, append |-> FALSE]
    ELSE IF rawCount[d] = 1
    THEN IF csvCount[d] > CsvThreshold
         THEN [ready |-> TRUE, append |-> FALSE]
         ELSE [ready |-> FALSE, append |-> d \notin seen_paths]
    ELSE [ready |-> FALSE, append |-> FALSE]

\* check_report_folder, the names of the .html files found by os.walk
\* below the Report directory of leaf d.
html_files(d) == { f.file : f \in { g \in files : g.leaf = d } }

\* check_report_folder, the composites it finds missing.
missing_composites(d, composite_list) ==
    { i \in 1..Len(composite_list) :
        ~ \E html_file \in html_files(d) : IsSubstring(composite_list[i], html_file) }

\* check_report_folder gets as far as the catalog query for leaf d.
QueriesCatalog(d) == rawCount[d] = 1 /\ reportDir[d] /\ ~ParameterRaises(d)

\* check_report_folder without its branch for a missing Report directory.
check_report_folder_no_absent_branch(d, outcome) ==
    IF rawCount[d] = 1
    THEN IF ParameterRaises(d)
         THEN "ValueError"
         ELSE IF missing_composites(d, get_composite_list(outcome)) # {} /\ reportDir[d]
         THEN "append"
         ELSE "skip"
    ELSE "skip"

\* check_report_folder: "append" (the path goes on csv_list), "skip", or
\* "ValueError" (get_parameter_from_stdf_path raises; nothing catches it
\* below run_continuous).
check_report_folder(d, outcome) ==
    IF rawCount[d] = 1
    THEN IF ~reportDir[d]
         THEN "append"
         ELSE IF ParameterRaises(d)
         THEN "ValueError"
         ELSE IF missing_composites(d, get_composite_list(outcome)) # {}
         THEN "append"
         ELSE "skip"
    ELSE "skip"

\* A cycle start that keeps seen_paths from the pass before (the set made
\* once, outside the loop).
StartCycle_keeps_seen_paths ==
    /\ pc = "sleep"
    /\ cycle_count < MaxCycles
    /\ cycle_count' = cycle_count + 1
    /\ pc' = "poll"
    /\ wi' = 1
    /\ stdf_list' = << >>
    /\ csv_list' = << >>
    /\ condition_list' = << >>
    /\ seen_paths' = seen_paths
    /\ idx' = 0
    /\ UNCHANGED <<failures, svn_content, conv, pool, pure, fs, run, markerBy, convQueued>>

\* run_continuous, top of the loop, and the first lines of poll_directory:
\* a new cycle starts with empty lists and an empty seen_paths.
StartCycle ==
    /\ pc = "sleep"
    /\ cycle_count < MaxCycles
    /\ cycle_count' = cycle_count + 1
    /\ pc' = "poll"
    /\ wi' = 1
    /\ stdf_list' = << >>
    /\ csv_list' = << >>
    /\ condition_list' = << >>
    /\ seen_paths' = {}
    /\ idx' = 0
    /\ UNCHANGED <<failures, svn_content, conv, pool, pure, fs, run, markerBy, convQueued>>

\* A pass that writes the condition marker as it puts the anaflow files on
\* condition_list.
PollCondition_writes_marker ==
    /\ pc = "poll"
    /\ wi <= Len(Walk)
    /\ Walk[wi].kind = "condition"
    /\ condition_list' = condition_list \o check_condition_files(Walk[wi].at)
    /\ condMarker' = (condMarker \/ check_condition_files(Walk[wi].at) # << >>)
    /\ wi' = wi + 1
    /\ UNCHANGED <<failures, svn_content, conv, pool, pure, marker, rawCount, csvCount,
                   reportDir, files, condDir, pc, cycle_count, stdf_list, csv_list,
                   seen_paths, idx, run, markerBy, convQueued>>

\* _process_ews_flow / _process_standard_flow, first statement:
\* check_condition_files on the flow directory.
PollCondition ==
    /\ pc = "poll"
    /\ wi <= Len(Walk)
    /\ Walk[wi].kind = "condition"
    /\ condition_list' = condition_list \o check_condition_files(Walk[wi].at)
    /\ wi' = wi + 1
    /\ UNCHANGED <<failures, svn_content, conv, pool, pure, fs, pc, cycle_count, stdf_list, csv_list,
                   seen_paths, idx, run, markerBy, convQueued>>

\* A _process_wafer_subfolders that takes a marker without a Report directory
\* next to it for stale and deletes it, so that the leaf is classified anew
\* by the next pass.
PollLeaf_resets_stale_marker ==
    /\ pc = "poll"
    /\ wi <= Len(Walk)
    /\ Walk[wi].kind = "leaf"
    /\ LET d == Walk[wi].at
       IN  marker' = IF marker[d] /\ ~reportDir[d]
                     THEN [marker EXCEPT ![d] = FALSE]
                     ELSE marker
    /\ wi' = wi + 1
    /\ UNCHANGED <<svn_content, conv, pool, pure, rawCount, csvCount, reportDir, files, condDir,
                   condMarker, pc, cycle_count, stdf_list, csv_list, condition_list,
                   seen_paths, idx, run, failures, markerBy, convQueued>>

\* _process_wafer_subfolders on one subfolder: check_csv_folder and, when it
\* returns True, check_report_folder.  A ValueError out of
\* check_report_folder leaves poll_directory and run_single_cycle and is
\* caught by run_continuous ("Continuing after error..."): the lists of the
\* pass are lost and nothing is dispatched.
PollLeaf ==
    /\ pc = "poll"
    /\ wi <= Len(Walk)
    /\ Walk[wi].kind = "leaf"
    /\ LET d == Walk[wi].at
           c == check_csv_folder(d)
       IN  /\ stdf_list' = IF c.append THEN Append(stdf_list, d) ELSE stdf_list
           /\ seen_paths' = IF c.append THEN seen_paths \cup {d} ELSE seen_paths
           /\ convQueued' = IF c.append
                            THEN [convQueued EXCEPT ![d] = @ + 1]
                            ELSE convQueued
           /\ IF c.ready
              THEN \E outcome \in (IF QueriesCatalog(d) THEN SvnOutcomes ELSE {"ok"}) :
                     LET r == check_report_folder(d, outcome)
                     IN  /\ csv_list' = IF r = "append"
                                        THEN Append(csv_list, d)
                                        ELSE csv_list
                         /\ pc' = IF r = "ValueError" THEN "error" ELSE pc
                         /\ wi' = IF r = "ValueError" THEN wi ELSE wi + 1
                         /\ failures' = IF outcome = "ok" THEN failures ELSE failures + 1
              ELSE /\ csv_list' = csv_list
                   /\ pc' = pc
                   /\ wi' = wi + 1
                   /\ failures' = failures
    /\ UNCHANGED <<svn_content, conv, pool, pure, fs, cycle_count, condition_list, idx, run, markerBy>>

\* os.listdir of a directory the walk has come to raises OSError (no
\* permission, the share is gone): the walkers, check_condition_files,
\* check_csv_folder and check_report_folder call it outside any try, and
\* nothing catches the error below run_continuous.
PollListingFails ==
    /\ pc = "poll"
    /\ wi <= Len(Walk)
    /\ failures < MaxFailures
    /\ failures' = failures + 1
    /\ pc' = "oserror"
    /\ UNCHANGED <<svn_content, conv, pool, pure, fs, cycle_count, wi, stdf_list, csv_list,
                   condition_list, seen_paths, idx, run, markerBy, convQueued>>

\* A run_continuous whose "except Exception" leaves the loop, as its
\* "except KeyboardInterrupt" does.
CycleError_leaves_loop ==
    /\ pc \in {"error", "oserror"}
    /\ pc' = "stopped"
    /\ UNCHANGED <<failures, svn_content, conv, pool, pure, fs, cycle_count, wi, stdf_list, csv_list,
                   condition_list, seen_paths, idx, run, markerBy, convQueued>>

\* run_continuous, "except Exception": the cycle is given up, its lists are
\* gone with run_single_cycle's frame, and the loop sleeps.
CycleError ==
    /\ pc \in {"error", "oserror"}
    /\ pc' = "sleep"
    /\ wi' = 0
    /\ stdf_list' = << >>
    /\ csv_list' = << >>
    /\ condition_list' = << >>
    /\ seen_paths' = {}
    /\ UNCHANGED <<failures, svn_content, conv, pool, pure, fs, cycle_count, idx, run, markerBy, convQueued>>

\* poll_directory returns its three lists; run_single_cycle goes on to
\* process_stdf_files.
PollEnd ==
    /\ pc = "poll"
    /\ wi > Len(Walk)
    /\ pc' = "stdf"
    /\ idx' = 1
    /\ UNCHANGED <<failures, svn_content, conv, pool, pure, fs, cycle_count, wi, stdf_list, csv_list,
                   condition_list, seen_paths, run, markerBy, convQueued>>

\* ------------------------------------------------- STDFWorker
\* process_stdf_files without its try / except: the ValueError of an item
\* leaves the cycle.
ProcessStdfFile_uncaught ==
    /\ pc = "stdf"
    /\ idx <= Len(stdf_list)
    /\ IF ParameterRaises(stdf_list[idx])
       THEN pc' = "error" /\ idx' = idx
       ELSE pc' = pc /\ idx' = idx + 1
    /\ UNCHANGED <<failures, svn_content, conv, pool, pure, fs, cycle_count, wi, stdf_list, csv_list,
                   condition_list, seen_paths, run, markerBy, convQueued>>

\* process_stdf_files, one item: STDFWorker.process_file parses the path and
\* prints; the call of _convert_stdf_to_csv is commented out in the source,
\* so nothing is converted.  A ValueError of the parse is caught by
\* process_stdf_files.  Either way the loop goes to the next item.
ProcessStdfFile ==
    /\ pc = "stdf"
    /\ idx <= Len(stdf_list)
    /\ idx' = idx + 1
    /\ UNCHANGED <<failures, svn_content, conv, pool, pure, fs, pc, cycle_count, wi, stdf_list, csv_list,
                   condition_list, seen_paths, run, markerBy, convQueued>>

\* A process_stdf_files that returns after its first item.
StdfDone_after_first_item ==
    /\ pc = "stdf"
    /\ idx > 1
    /\ pc' = "csv"
    /\ idx' = 1
    /\ UNCHANGED <<failures, svn_content, conv, pool, pure, fs, cycle_count, wi, stdf_list, csv_list,
                   condition_list, seen_paths, run, markerBy, convQueued>>

\* run_single_cycle: process_stdf_files has returned, process_csv_files starts.
StdfDone ==
    /\ pc = "stdf"
    /\ idx > Len(stdf_list)
    /\ pc' = "csv"
    /\ idx' = 1
    /\ UNCHANGED <<failures, svn_content, conv, pool, pure, fs, cycle_count, wi, stdf_list, csv_list,
                   condition_list, seen_paths, run, markerBy, convQueued>>

\* run_single_cycle: process_csv_files has returned, process_condition_files starts.
CsvDone ==
    /\ pc = "csv"
    /\ run.phase # "loop"
    /\ idx > Len(csv_list)
    /\ pc' = "condition"
    /\ idx' = 1
    /\ UNCHANGED <<failures, svn_content, conv, pool, pure, fs, cycle_count, wi, stdf_list, csv_list,
                   condition_list, seen_paths, run, markerBy, convQueued>>

\* run_single_cycle returns; run_continuous sleeps.
ConditionDone ==
    /\ pc = "condition"
    /\ run.phase # "loop"
    /\ idx > Len(condition_list)
    /\ pc' = "sleep"
    /\ UNCHANGED <<failures, svn_content, conv, pool, pure, fs, cycle_count, wi, stdf_list, csv_list,
                   condition_list, seen_paths, idx, run, markerBy, convQueued>>

\* ------------------------------------------------- ReportWorker
\* The process type of the list that pc is dispatching.
ProcessTypeAt(p) == IF p = "csv" THEN "CSV2REPORT" ELSE "CONDITION2REPORT"

\* The list that pc is dispatching.
ListAt(p) == IF p = "csv" THEN csv_list ELSE condition_list

\* os.path.dirname of a work item: its leaf, or the CONDITION directory.
DirName(path, process_type) ==
    IF process_type = "CSV2REPORT" THEN path ELSE ConditionDir

\* Every composite of the catalog that the Report Stage does not skip for
\* leaf d has its report file.
AllReportsExist(d) ==
    \A f \in ToolFiles(d) : f \in files

\* process_file up to the composite loop: parse the path (a ValueError
\* leaves process_file and is caught by process_csv_files, which goes to the
\* next item), query the catalog, load the tables.
ReportBegin ==
    /\ pc \in {"csv", "condition"}
    /\ run.phase # "loop"
    /\ idx <= Len(ListAt(pc))
    /\ LET path == ListAt(pc)[idx]
           type == ProcessTypeAt(pc)
       IN  IF type = "CSV2REPORT" /\ ParameterRaises(path)
           THEN /\ run' = [IdleRun EXCEPT !.phase = "raised",
                                            !.process_type = type,
                                            !.path = path,
                                            !.marker0 = marker[path]]
                /\ idx' = idx + 1
                /\ failures' = failures
           ELSE /\ \E outcome \in SvnOutcomes :
                   /\ failures' = IF outcome = "ok" THEN failures ELSE failures + 1
                   /\ run' = [ phase |-> "loop",
                                process_type |-> type,
                                path |-> path,
                                parameter |-> IF type = "CSV2REPORT"
                                              THEN get_parameter(path)
                                              ELSE get_parameter_from_condition_path(path),
                                composite_list |-> get_composite_list(outcome),
                                k |-> 1,
                                checks |-> 0,
                                renders |-> << >>,
                                wrote |-> FALSE,
                                allExist0 |-> IF type = "CSV2REPORT"
                                              THEN AllReportsExist(path)
                                              ELSE FALSE,
                                files0 |-> files,
                                reportDir0 |-> reportDir,
                                marker0 |-> IF type = "CSV2REPORT"
                                            THEN marker[path]
                                            ELSE condMarker ]
                /\ idx' = idx
    /\ UNCHANGED <<svn_content, conv, pool, pure, fs, pc, cycle_count, wi, stdf_list, csv_list,
                   condition_list, seen_paths, markerBy, convQueued>>

\* The results a call of core.process_composite can have: the notebook
\* conversion writes its .html file, or nothing is written (tables missing,
\* no test of the composite, conversion failed); it raises nothing.
RenderResults ==
    IF failures < MaxFailures THEN {"html", "nothing"} ELSE {"html"}

\* An existence test that finds no report.
report_exists_never(report_path) == FALSE

\* process_file, the existence test of a report: os.path.isfile(report_path).
report_exists(report_path) == report_path \in files

\* A loop that a failed render ends.
next_composite_failure_ends_loop(r, result) ==
    IF result = "html" THEN r.k + 1 ELSE Len(r.composite_list) + 1

\* process_file, after _run_report_generation: whatever the render did
\* (an exception is caught by the loop's "except Exception" and printed),
\* the loop goes to the next composite.
next_composite(r, result) == r.k + 1

\* A _run_report_generation that hands its caller's bag to the renderer.
run_report_generation_no_copy(parameter) ==
    [ job       |-> process_composite(parameter),
      parameter |-> process_composite(parameter).parameter ]

\* _run_report_generation: core.process_composite works on
\* local_parameter, a deep copy; the bag of process_file is as it was.
run_report_generation(parameter) ==
    LET local_parameter == parameter
    IN  [ job       |-> process_composite(local_parameter),
          parameter |-> parameter ]

\* process_file, one iteration of "for composite in composite_list".
ReportComposite ==
    /\ pc \in {"csv", "condition"}
    /\ run.phase = "loop"
    /\ run.k <= Len(run.composite_list)
    /\ LET composite == run.composite_list[run.k]
           type == run.process_type
           parameter == [run.parameter EXCEPT
                            !.COM = composite,
                            !.TITLE = create_title(run.parameter, composite, type)]
           report_path == get_report_path(DirName(run.path, type), parameter, type)
       IN  IF should_skip_composite(parameter, type)
           THEN /\ run' = [run EXCEPT !.parameter = parameter, !.k = @ + 1]
                /\ UNCHANGED <<files, reportDir, failures>>
           ELSE IF report_exists(report_path)
           THEN /\ run' = [run EXCEPT !.parameter = parameter, !.k = @ + 1,
                                      !.checks = @ + 1]
                /\ UNCHANGED <<files, reportDir, failures>>
           ELSE IF type = "CONDITION2REPORT"
           THEN \* core.process_condition is called with two arguments and
                \* takes three: TypeError, caught by the loop's except.
                /\ run' = [run EXCEPT !.parameter = parameter,
                                      !.k = next_composite(run, "TypeError"),
                                      !.checks = @ + 1,
                                      !.renders = Append(@, [com |-> composite,
                                                             result |-> "TypeError"])]
                /\ UNCHANGED <<files, reportDir, failures>>
           ELSE \E result \in RenderResults :
                  LET gen == run_report_generation(parameter)
                      job == gen.job
                      out == convert_notebook_to_html(job.parameter)
                      written == result = "html" /\ job.started
                  IN  /\ run' = [run EXCEPT !.parameter = gen.parameter,
                                            !.k = next_composite(run, result),
                                            !.checks = @ + 1,
                                            !.renders = Append(@, [com |-> composite,
                                                                   result |-> result])]
                      /\ failures' = IF result = "html" THEN failures ELSE failures + 1
                      /\ files' = IF written THEN files \cup {out} ELSE files
                      /\ reportDir' = IF written /\ out.leaf \in Leaves
                                      THEN [reportDir EXCEPT ![out.leaf] = TRUE]
                                      ELSE reportDir
    /\ UNCHANGED <<svn_content, conv, pool, pure, marker, rawCount, csvCount, condDir, condMarker,
                   pc, cycle_count, wi, stdf_list, csv_list, condition_list,
                   seen_paths, idx, markerBy, convQueued>>

\* A loop that is left one composite early.
LoopEnded_one_early(r) == r.k >= Len(r.composite_list)

\* The composite loop of the run has ended.
LoopEnded(r) == r.k > Len(r.composite_list)

\* process_file, after the loop: create_completion_marker in the directory
\* of the item, then back to process_csv_files / process_condition_files.
ReportMarker ==
    /\ pc \in {"csv", "condition"}
    /\ run.phase = "loop"
    /\ LoopEnded(run)
    /\ IF run.process_type = "CSV2REPORT"
       THEN /\ marker' = [marker EXCEPT ![run.path] = TRUE]
            /\ markerBy' = [markerBy EXCEPT ![run.path] = "stage"]
            /\ UNCHANGED condMarker
       ELSE /\ condMarker' = TRUE
            /\ UNCHANGED <<marker, markerBy>>
    /\ run' = [run EXCEPT !.phase = "done", !.wrote = TRUE]
    /\ idx' = idx + 1
    /\ UNCHANGED <<failures, svn_content, conv, pool, pure, rawCount, csvCount, reportDir, files, condDir,
                   pc, cycle_count, wi, stdf_list, csv_list, condition_list,
                   seen_paths, convQueued>>

\* ------------------------------------------------- the operator
\* KeyboardInterrupt: it is no Exception, so it passes every "except
\* Exception" between the point where it is raised and run_continuous,
\* which leaves its loop and returns: the process ends, with its lists.  A
\* run of process_file it hits is given up.
Interrupt ==
    /\ pc # "stopped"
    /\ pc' = "stopped"
    /\ run' = IF run.phase = "loop" THEN [run EXCEPT !.phase = "raised"] ELSE run
    /\ wi' = 0
    /\ idx' = 0
    /\ stdf_list' = << >>
    /\ csv_list' = << >>
    /\ condition_list' = << >>
    /\ seen_paths' = {}
    /\ UNCHANGED <<svn_content, conv, pool, pure, fs, cycle_count, failures, markerBy, convQueued>>

\* The operator deletes "REPORT DONE.txt" of a leaf to have its reports
\* made again (the marker's own text says so).
OperatorDeletesMarker ==
    /\ pc = "sleep"
    /\ \E d \in Leaves :
         /\ marker[d]
         /\ marker' = [marker EXCEPT ![d] = FALSE]
         /\ markerBy' = [markerBy EXCEPT ![d] = "deleted"]
    /\ UNCHANGED <<svn_content, conv, pool, pure, rawCount, csvCount, reportDir, files, condDir,
                   condMarker, loop, convQueued>>

\* ------------------------------------------------- the specification
Next ==
    \/ StartCycle
    \/ PollCondition
    \/ PollLeaf
    \/ PollListingFails
    \/ CycleError
    \/ PollEnd
    \/ ProcessStdfFile
    \/ StdfDone
    \/ ReportBegin
    \/ ReportComposite
    \/ ReportMarker
    \/ CsvDone
    \/ ConditionDone
    \/ Interrupt
    \/ OperatorDeletesMarker

Spec == Init /\ [][Next]_vars

\* ------------------------------------------------- the Report Stage alone
\* process_csv_files called with a list of one raw-file path, MaxRuns times
\* one after the other, on any leaf that has a raw file: the Report Stage
\* without the classification that precedes it in a cycle.
DirectRun ==
    /\ run.phase # "loop"
    /\ \/ pc = "sleep"
       \/ pc = "csv" /\ idx > Len(csv_list)
    /\ cycle_count < MaxRuns
    /\ cycle_count' = cycle_count + 1
    /\ \E d \in Leaves :
         /\ rawCount[d] >= 1
         /\ csv_list' = << d >>
    /\ pc' = "csv"
    /\ idx' = 1
    /\ UNCHANGED <<svn_content, conv, pool, pure, fs, wi, stdf_list, condition_list, seen_paths, run,
                   failures, markerBy, convQueued>>

NextStage ==
    \/ DirectRun
    \/ ReportBegin
    \/ ReportComposite
    \/ ReportMarker

SpecStage == Init /\ [][NextStage]_vars

\* ------------------------------------------------- the Conversion Stage
\* stdf2csv.py and its caller process_stdf_to_csv (pollingv3.py; pollingv2.py
\* has the same function, pollingv4.py has it as _convert_stdf_to_csv).  A
\* .csv file is named by a number.
\*
\* The files STDF2CSV.exe can have written next to the raw file when a call
\* of it returns: none (it failed at once), as many as the threshold (it
\* broke off), or all its tables.
ExeOutputs == {0, CsvThreshold, CsvThreshold + 1}

\* The first j files of a directory, in the order of its listing.
FirstOf(S, j) == { x \in S : Cardinality({ y \in S : y < x }) < j }

\* A process_stdf_to_csv that clears the csv directory before it makes it
\* (shutil.rmtree, then os.makedirs).
makedirs_after_rmtree(csv_files) == {}

\* process_stdf_to_csv: os.makedirs(csv_folder, exist_ok=True) makes the
\* directory when it is missing and keeps what it holds.
makedirs(csv_files) == csv_files

\* move_csv_files: shutil.move of every .csv file of the source directory to
\* the same name in the destination (a file of that name is replaced); j is
\* the number of files moved when it returns or raises.
move_csv_files(src_folder, dest_folder, j) ==
    [ src  |-> src_folder \ FirstOf(src_folder, j),
      dest |-> dest_folder \cup FirstOf(src_folder, j) ]

\* How many files move_csv_files can have moved when it is left: all, or
\* fewer when shutil.move raises on a file (OSError).
MoveOutcomes(src_folder) ==
    IF failures < MaxFailures
    THEN {0, CsvThreshold, Cardinality(src_folder)} \cap 0..Cardinality(src_folder)
    ELSE {Cardinality(src_folder)}

\* stdf2csv_converter: the two calls of STDF2CSV.exe (subprocess.run without
\* check: a failure of the program raises nothing), then move_csv_files from
\* the directory of the raw file to the csv directory.
stdf2csv_converter(leaf_files, csv_files, n1, n2, j) ==
    move_csv_files(leaf_files \cup (1..n1) \cup (1..n2), csv_files, j)

\* pollingv3.main, one item of "for stdf_file in stdf_list":
\* stdf2csv_worker -> stdf_to_csv parses the path, process_stdf_to_csv makes
\* the csv directory and calls the converter.  An exception (the ValueError
\* of the parse, the OSError of a move) is caught by the loop and logged.
stdf_to_csv ==
    /\ pc = "stdf"
    /\ idx <= Len(stdf_list)
    /\ LET d == stdf_list[idx]
       IN  IF ParameterRaises(d)
           THEN UNCHANGED <<conv, csvCount, failures>>
           ELSE \E n1 \in ExeOutputs, n2 \in ExeOutputs :
                  LET written == stdf_folder[d] \cup (1..n1) \cup (1..n2)
                  IN  \E j \in MoveOutcomes(written) :
                        LET r == stdf2csv_converter(stdf_folder[d],
                                                    makedirs(csv_folder[d]), n1, n2, j)
                        IN  /\ stdf_folder' = [stdf_folder EXCEPT ![d] = r.src]
                            /\ csv_folder' = [csv_folder EXCEPT ![d] = r.dest]
                            /\ csvCount' = [csvCount EXCEPT ![d] = Cardinality(r.dest)]
                            /\ failures' = IF j < Cardinality(written)
                                           THEN failures + 1
                                           ELSE failures
    /\ idx' = idx + 1
    /\ UNCHANGED <<svn_content, pool, pure, marker, rawCount, reportDir, files, condDir,
                   condMarker, pc, cycle_count, wi, stdf_list, csv_list, condition_list,
                   seen_paths, run, markerBy, convQueued>>

\* The conversion loop of pollingv3.main called with a list of one raw-file
\* path, MaxConversions times one after the other, on any leaf that has one
\* raw file: the Conversion Stage without the classification before it.
DirectConversion ==
    /\ \/ pc = "sleep"
       \/ pc = "stdf" /\ idx > Len(stdf_list)
    /\ cycle_count < MaxConversions
    /\ cycle_count' = cycle_count + 1
    /\ \E d \in Leaves :
         /\ rawCount[d] = 1
         /\ stdf_list' = << d >>
    /\ pc' = "stdf"
    /\ idx' = 1
    /\ UNCHANGED <<svn_content, conv, pool, pure, fs, wi, csv_list, condition_list,
                   seen_paths, run, failures, markerBy, convQueued>>

\* The leaves as the Conversion Stage can find them: no reports yet.
InitConversion ==
    /\ Init
    /\ svn_content = << <<"INIT">> >>
    /\ \A d \in Leaves : ~marker[d] /\ ~reportDir[d]

NextConversion ==
    \/ DirectConversion
    \/ stdf_to_csv

SpecConversion == InitConversion /\ [][NextConversion]_vars

\* ------------------------------------------------- functions on their own
\* The composite names composites.cnf can hold ("Composite := (\w+)"), up to
\* MaxNameLen tokens long.
NameTokens == {"YIELD", "TTIME", "A", "a", "_", "B"}

CompositeNames == UNION { [1..n -> NameTokens] : n \in 1..MaxNameLen }

\* process_file, the head of one iteration of "for composite in
\* composite_list" for a raw-file path and a composite: the title, the skip
\* decision and the report path whose existence is tested.
composite_head(path, composite) ==
    IF ParameterRaises(path)
    THEN [NoReturn EXCEPT !.status = "ValueError"]
    ELSE LET parameter == ParameterFor(path, composite)
         IN  [ status      |-> "returned",
               TITLE       |-> parameter.TITLE,
               skipped     |-> should_skip_composite(parameter, "CSV2REPORT"),
               report_path |-> get_report_path(path, parameter, "CSV2REPORT") ]

\* The call of composite_head.
CallCompositeHead ==
    /\ call # NoCall
    /\ returned = NoReturn
    /\ returned' = composite_head(call.path, call.composite)
    /\ UNCHANGED <<svn_content, conv, pool, fs, loop, markerBy, convQueued, call, log>>

\* Any leaf and any composite name.
InitCall ==
    /\ InitTool
    /\ svn_content = << <<"INIT">> >>
    /\ files = {}
    /\ \A d \in Leaves : ~marker[d] /\ ~reportDir[d] /\ csvCount[d] > CsvThreshold
    /\ call \in [path : Leaves, composite : CompositeNames]
    /\ returned = NoReturn
    /\ log = NoLog

NextCall ==
    \/ CallCompositeHead

SpecCall == InitCall /\ [][NextCall]_vars

\* ------------------------------------------------- the worker pools
\* pollingv2.py: one polling process that feeds two queues, the conversion
\* workers that drain queue_stdf2csv and the report workers that drain
\* queue_csv2report.  There are no completion markers and no CONDITION
\* directories in this topology.  An entry of queue_csv2report is the path
\* together with the process that put it.
\*
\* The order in which polling visits the leaves: "VOLUME" before "x30".
PoolWalk == << "EWS1/Q1_04/VOLUME", "EWS1/Q1_04/x30", "FT/B1/VOLUME" >>

\* polling.check_csv_folder: what it returns (ready) and whether it puts
\* the raw-file path on queue_stdf2csv.
polling_check_csv_folder(d) ==
    IF rawCount[d] = 1
    THEN IF csvCount[d] > CsvThreshold
         THEN [ready |-> TRUE, put |-> FALSE]
         ELSE [ready |-> FALSE, put |-> d \notin seen_paths]
    ELSE [ready |-> FALSE, put |-> FALSE]

\* polling.check_report_folder: "put" (the path goes on queue_csv2report),
\* "skip", or "ValueError" (get_parameter raises, and nothing in polling
\* catches it).
polling_check_report_folder(d, outcome) ==
    IF rawCount[d] = 1
    THEN IF ~reportDir[d]
         THEN "put"
         ELSE IF ParameterRaises(d)
         THEN "ValueError"
         ELSE IF missing_composites(d, get_composite_list(outcome)) # {}
         THEN "put"
         ELSE "skip"
    ELSE "skip"

\* polling, top of "while True": a pass begins.  seen_paths is made once,
\* before the loop, and kept from pass to pass.
PoolStartPass ==
    /\ pc = "sleep"
    /\ cycle_count < MaxCycles
    /\ cycle_count' = cycle_count + 1
    /\ pc' = "poll"
    /\ wi' = 1
    /\ UNCHANGED <<svn_content, conv, pool, pure, fs, stdf_list, csv_list,
                   condition_list, seen_paths, idx, run, failures, markerBy, convQueued>>

\* polling, one subfolder: check_csv_folder and, when it returns True,
\* check_report_folder.  A ValueError ends the polling process.
PoolPollLeaf ==
    /\ pc = "poll"
    /\ wi <= Len(PoolWalk)
    /\ LET d == PoolWalk[wi]
           c == polling_check_csv_folder(d)
       IN  /\ queue_stdf2csv' = IF c.put THEN Append(queue_stdf2csv, d) ELSE queue_stdf2csv
           /\ seen_paths' = IF c.put THEN seen_paths \cup {d} ELSE seen_paths
           /\ convQueued' = IF c.put THEN [convQueued EXCEPT ![d] = @ + 1] ELSE convQueued
           /\ IF c.ready
              THEN \E outcome \in (IF QueriesCatalog(d) THEN SvnOutcomes ELSE {"ok"}) :
                     LET r == polling_check_report_folder(d, outcome)
                     IN  /\ queue_csv2report' =
                               IF r = "put"
                               THEN Append(queue_csv2report, [path |-> d, by |-> "polling"])
                               ELSE queue_csv2report
                         /\ pc' = IF r = "ValueError" THEN "stopped" ELSE pc
                         /\ wi' = IF r = "ValueError" THEN wi ELSE wi + 1
                         /\ failures' = IF outcome = "ok" THEN failures ELSE failures + 1
              ELSE /\ queue_csv2report' = queue_csv2report
                   /\ pc' = pc
                   /\ wi' = wi + 1
                   /\ failures' = failures
    /\ UNCHANGED <<svn_content, conv, pure, fs, stdf2csv_procs, csv2report_procs,
                   cycle_count, stdf_list, csv_list, condition_list, idx, run, markerBy>>

\* polling, the walk is over: time.sleep(600).
PoolPassEnd ==
    /\ pc = "poll"
    /\ wi > Len(PoolWalk)
    /\ pc' = "sleep"
    /\ UNCHANGED <<svn_content, conv, pool, pure, fs, cycle_count, wi, stdf_list,
                   csv_list, condition_list, seen_paths, idx, run, failures, markerBy,
                   convQueued>>

\* What the worker pools leave alone.
pool_frame == <<svn_content, pure, marker, rawCount, condDir, condMarker, pc,
                cycle_count, wi, stdf_list, csv_list, condition_list, seen_paths, idx,
                run, markerBy, convQueued>>

\* stdf2csv_worker: queue_stdf2csv.get(timeout=10) returns an item.
Stdf2csvGet(w) ==
    /\ stdf2csv_procs[w].at = "get"
    /\ queue_stdf2csv # << >>
    /\ stdf2csv_procs' = [stdf2csv_procs EXCEPT
                            ![w] = [at |-> "busy", path |-> Head(queue_stdf2csv)]]
    /\ queue_stdf2csv' = Tail(queue_stdf2csv)
    /\ UNCHANGED <<pool_frame, conv, csvCount, reportDir, files, failures,
                   queue_csv2report, csv2report_procs>>

\* stdf2csv_worker: the read times out on the empty queue (queue.Empty).
Stdf2csvTimeout(w) ==
    /\ stdf2csv_procs[w].at = "get"
    /\ queue_stdf2csv = << >>
    /\ stdf2csv_procs' = [stdf2csv_procs EXCEPT ![w].at = "timeout"]
    /\ UNCHANGED <<pool_frame, conv, csvCount, reportDir, files, failures,
                   queue_stdf2csv, queue_csv2report, csv2report_procs>>

\* stdf2csv_worker: "except: continue", back to the read.
Stdf2csvRetry(w) ==
    /\ stdf2csv_procs[w].at = "timeout"
    /\ stdf2csv_procs' = [stdf2csv_procs EXCEPT ![w].at = "get"]
    /\ UNCHANGED <<pool_frame, conv, csvCount, reportDir, files, failures,
                   queue_stdf2csv, queue_csv2report, csv2report_procs>>

\* stdf2csv_worker on the item it took: stdf_to_csv, then
\* queue_csv2report.put(path) and task_done.  Nothing in the worker catches
\* an exception of stdf_to_csv (the ValueError of the parse, the OSError of a
\* move): it ends the worker process.
Stdf2csvWork(w) ==
    /\ stdf2csv_procs[w].at = "busy"
    /\ LET d == stdf2csv_procs[w].path
       IN  IF ParameterRaises(d)
           THEN /\ stdf2csv_procs' = [stdf2csv_procs EXCEPT ![w].at = "dead"]
                /\ UNCHANGED <<conv, csvCount, failures, queue_csv2report>>
           ELSE \E n1 \in ExeOutputs, n2 \in ExeOutputs :
                  LET written == stdf_folder[d] \cup (1..n1) \cup (1..n2)
                  IN  \E j \in MoveOutcomes(written) :
                        LET r == stdf2csv_converter(stdf_folder[d],
                                                    makedirs(csv_folder[d]), n1, n2, j)
                            raised == j < Cardinality(written)
                        IN  /\ stdf_folder' = [stdf_folder EXCEPT ![d] = r.src]
                            /\ csv_folder' = [csv_folder EXCEPT ![d] = r.dest]
                            /\ csvCount' = [csvCount EXCEPT ![d] = Cardinality(r.dest)]
                            /\ failures' = IF raised THEN failures + 1 ELSE failures
                            /\ stdf2csv_procs' =
                                  [stdf2csv_procs EXCEPT
                                     ![w].at = IF raised THEN "dead" ELSE "get"]
                            /\ queue_csv2report' =
                                  IF raised
                                  THEN queue_csv2report
                                  ELSE Append(queue_csv2report,
                                              [path |-> d, by |-> "stdf2csv_worker"])
    /\ UNCHANGED <<pool_frame, reportDir, files, queue_stdf2csv, csv2report_procs>>

\* csv2report_worker: queue_csv2report.get(timeout=30) returns an item.
Csv2reportGet(w) ==
    /\ csv2report_procs[w].at = "get"
    /\ queue_csv2report # << >>
    /\ csv2report_procs' = [csv2report_procs EXCEPT
                              ![w] = [at |-> "busy", path |-> Head(queue_csv2report).path]]
    /\ queue_csv2report' = Tail(queue_csv2report)
    /\ UNCHANGED <<pool_frame, conv, csvCount, reportDir, files, failures,
                   queue_stdf2csv, stdf2csv_procs>>

\* csv2report_worker: the read times out on the empty queue.
Csv2reportTimeout(w) ==
    /\ csv2report_procs[w].at = "get"
    /\ queue_csv2report = << >>
    /\ csv2report_procs' = [csv2report_procs EXCEPT ![w].at = "timeout"]
    /\ UNCHANGED <<pool_frame, conv, csvCount, reportDir, files, failures,
                   queue_stdf2csv, queue_csv2report, stdf2csv_procs>>

\* csv2report_worker: "except: continue", back to the read.
Csv2reportRetry(w) ==
    /\ csv2report_procs[w].at = "timeout"
    /\ csv2report_procs' = [csv2report_procs EXCEPT ![w].at = "get"]
    /\ UNCHANGED <<pool_frame, conv, csvCount, reportDir, files, failures,
                   queue_stdf2csv, queue_csv2report, stdf2csv_procs>>

\* csv2report_worker on the item it took: get_parameter (its ValueError is
\* caught by nothing and ends the worker process), get_composite, then for
\* every composite that is not skipped and has no report yet run_report;
\* task_done.  run_report calls core.process_composite with two arguments
\* and it takes three: the TypeError is caught by the loop's "except
\* Exception" and printed, and no report is written.
Csv2reportWork(w) ==
    /\ csv2report_procs[w].at = "busy"
    /\ LET d == csv2report_procs[w].path
       IN  IF ParameterRaises(d)
           THEN /\ csv2report_procs' = [csv2report_procs EXCEPT ![w].at = "dead"]
                /\ UNCHANGED failures
           ELSE \E outcome \in SvnOutcomes :
                  /\ csv2report_procs' = [csv2report_procs EXCEPT ![w].at = "get"]
                  /\ failures' = IF outcome = "ok" THEN failures ELSE failures + 1
    /\ UNCHANGED <<pool_frame, conv, csvCount, reportDir, files, queue_stdf2csv,
                   queue_csv2report, stdf2csv_procs>>

\* The leaves as the worker pools can find them: one raw file each, no
\* reports yet, converted or not.
InitPool ==
    /\ Init
    /\ svn_content = << <<"INIT">> >>
    /\ condDir = FALSE
    /\ files = {}
    /\ \A d \in Leaves : ~marker[d] /\ rawCount[d] = 1 /\ ~reportDir[d]

NextPool ==
    \/ PoolStartPass
    \/ PoolPollLeaf
    \/ PoolPassEnd
    \/ \E w \in Stdf2csvWorkers :
         \/ Stdf2csvGet(w)
         \/ Stdf2csvTimeout(w)
         \/ Stdf2csvRetry(w)
         \/ Stdf2csvWork(w)
    \/ \E w \in Csv2reportWorkers :
         \/ Csv2reportGet(w)
         \/ Csv2reportTimeout(w)
         \/ Csv2reportRetry(w)
         \/ Csv2reportWork(w)

SpecPool == InitPool /\ [][NextPool]_vars

\* ------------------------------------------------- the taxonomy walker
\* A directory six levels below the root, by the names of its path, each
\* name a sequence of characters (a flow and a subfolder are kept whole).
\* ProcessingConfig: allowed_flow, allowed_package, product_regex.
allowed_flow == {"EWS1", "EWS2", "EWS3", "EWSDIE", "FT", "FT1", "FT2", "FIAB", "QC", "FA"}

allowed_package == {"QFP", "QFN", "DIP", "WLCSP", "CSP"}

\* The characters of [A-F0-9] and of [A-Z] that the names below use.
HexUpper == {"A", "F", "0"}

UpperLetters == {"A", "B", "F", "G"}

\* product_regex.match(d): ^[A-F0-9]{3}$.
product_regex_match(product) ==
    /\ Len(product) = 3
    /\ \A i \in 1..3 : product[i] \in HexUpper

\* _process_product_directory: re.compile(rf"^{product}[A-Z]$").match.  The
\* product has matched product_regex: its characters are literals.
productcut_regex_match(product, productcut) ==
    /\ Len(productcut) = Len(product) + 1
    /\ SubSeq(productcut, 1, Len(product)) = product
    /\ productcut[Len(productcut)] \in UpperLetters

\* flow.startswith("EWS").
StartsWithEWS(flow) == flow \in {"EWS1", "EWS2", "EWS3", "EWSDIE", "EWS9"}

\* One character of a regular expression against one character: the lot
\* name is put into the expression as it is, and a "." in it stands for any
\* character; the other characters of the names here stand for themselves.
regex_char_match(p, c) == p = "." \/ p = c

\* _process_ews_flow:
\* re.compile(rf"^{lot}_([0][1-9]|1[0-9]|2[0-5])$").match(wafer).
lot_wafer_regex_match(lot, wafer) ==
    LET n == Len(lot)
    IN  /\ Len(wafer) = n + 3
        /\ \A i \in 1..n : regex_char_match(lot[i], wafer[i])
        /\ wafer[n + 1] = "_"
        /\ \/ wafer[n + 2] = "0" /\ wafer[n + 3] \in {"1", "5", "6", "9"}
           \/ wafer[n + 2] = "1" /\ wafer[n + 3] \in {"0", "1", "5", "6", "9"}
           \/ wafer[n + 2] = "2" /\ wafer[n + 3] \in {"0", "1", "5"}

\* _process_standard_flow: any(pkg in package for pkg in allowed_package); a
\* package name is a sequence of pieces, a family name being one piece.
package_allowed(package) ==
    \E pkg \in allowed_package : IsSubstring(<<pkg>>, package)

\* poll_directory down to _process_wafer_subfolders: how often the
\* directory of this path is handed to check_csv_folder in one pass.  Every
\* listing holds a name once, and each loop goes through its listing once.
times_classified(path) ==
    IF /\ product_regex_match(path.product)
       /\ productcut_regex_match(path.product, path.productcut)
       /\ path.flow \in allowed_flow
       /\ IF StartsWithEWS(path.flow)
          THEN /\ path.parent # <<"CONDITION">>
               /\ lot_wafer_regex_match(path.parent, path.unit)
          ELSE /\ path.parent # <<"CONDITION">>
               /\ package_allowed(path.parent)
       /\ path.subfolder \in {"x30", "VOLUME"}
    THEN 1
    ELSE 0

\* The names a directory can have at each level.
ProductNames ==
    { <<"A", "0", "F">>, <<"A", "0">>, <<"G", "0", "F">>, <<"a", "0", "f">> }

ProductCutNames ==
    { <<"A", "0", "F", "B">>, <<"A", "0", "F", "b">>, <<"A", "0", "F">>,
      <<"A", "0", "B">>, <<"A", "0", "F", "B", "B">>, <<"G", "0", "F", "B">> }

FlowNames == {"EWS1", "FT", "EWS9", "REL"}

LotNames == { <<"Q", "1">>, <<"Q", ".">> }

PackageNames == { <<"QFN", "4", "8">>, <<"L", "QFP">>, <<"B", "G", "A">>, <<"q", "f", "n">> }

WaferNames ==
    { lot \o <<"_">> \o nn :
        lot \in LotNames \cup { <<"Q", "X">> },
        nn \in { <<"0", "0">>, <<"0", "1">>, <<"2", "5">>, <<"2", "6">>, <<"1">> } }

BadgeNames == { <<"B", "1">>, <<"L", "_", "1">> }

SubfolderNames == {"VOLUME", "x30", "Report", "csv"}

WalkerPaths ==
    [ product : ProductNames, productcut : ProductCutNames, flow : FlowNames,
      parent : LotNames \cup PackageNames, unit : WaferNames \cup BadgeNames,
      subfolder : SubfolderNames ]

\* One pass over a tree that holds the directory of the call.
CallWalker ==
    /\ returned = NoReturn
    /\ returned' = [NoReturn EXCEPT
                      !.status = IF times_classified(call.path) = 0
                                 THEN "passed over"
                                 ELSE "classified"]
    /\ UNCHANGED <<svn_content, conv, pool, fs, loop, markerBy, convQueued, call, log>>

\* Any directory by its names.
InitWalker ==
    /\ InitTool
    /\ svn_content = << <<"INIT">> >>
    /\ files = {}
    /\ condDir
    /\ ~condMarker
    /\ \A d \in Leaves : csvCount[d] > CsvThreshold
    /\ call \in [path : WalkerPaths, composite : {<< >>}]
    /\ returned = NoReturn
    /\ log = NoLog

NextWalker ==
    \/ CallWalker

SpecWalker == InitWalker /\ [][NextWalker]_vars

\* ------------------------------------------------- one render on its own
\* process_file, one iteration of the composite loop on a Report directory
\* that holds nothing, with a renderer that succeeds: the composite is
\* skipped, or _run_report_generation has core.process_composite write the
\* report (report_path is then the file written), or the renderer returns
\* without a file (YIELD of an X30 leaf reaches it only in lower case).
render_composite(path, composite) ==
    IF ParameterRaises(path)
    THEN [NoReturn EXCEPT !.status = "ValueError"]
    ELSE LET parameter == ParameterFor(path, composite)
             job == run_report_generation(parameter).job
         IN  IF should_skip_composite(parameter, "CSV2REPORT")
             THEN [NoReturn EXCEPT !.status = "skipped", !.skipped = TRUE,
                                   !.TITLE = parameter.TITLE]
             ELSE IF job.started
             THEN [ status      |-> "rendered",
                    TITLE       |-> parameter.TITLE,
                    skipped     |-> FALSE,
                    report_path |-> convert_notebook_to_html(job.parameter) ]
             ELSE [NoReturn EXCEPT !.status = "nothing", !.TITLE = parameter.TITLE]

\* The call of render_composite.
CallRenderComposite ==
    /\ returned = NoReturn
    /\ returned' = render_composite(call.path, call.composite)
    /\ UNCHANGED <<svn_content, conv, pool, fs, loop, markerBy, convQueued, call, log>>

NextRender ==
    \/ CallRenderComposite

SpecRender == InitCall /\ [][NextRender]_vars

\* ------------------------------------------------- LineCountRotatingFileHandler
\* A line of a file is the number of the record it belongs to, 0 for a line
\* that no handler wrote.  A record is one line, or two when its message
\* holds a line break (the text of an exception).
\*
\* A shouldRollover that lets the file grow one record beyond max_lines.
shouldRollover_after_limit(line_count) == line_count > max_lines

\* shouldRollover.
shouldRollover(line_count) == line_count >= max_lines

\* doRollover, its loop "for i in range(backup_count - 1, 0, -1)" from i
\* down: <name>.i, when there, replaces <name>.(i + 1).
RECURSIVE rotate_backups(_, _)
rotate_backups(backups, i) ==
    IF i < 1
    THEN backups
    ELSE rotate_backups(IF backups[i].exists
                        THEN [backups EXCEPT ![i + 1] = backups[i], ![i] = AbsentFile]
                        ELSE backups,
                        i - 1)

\* _open: the file is opened for appending (made when missing) and its
\* lines are counted.
open_log(l) ==
    LET opened == [l.files EXCEPT ![0] = [exists |-> TRUE, lines |-> l.files[0].lines]]
    IN  [l EXCEPT !.files = opened, !.line_count = Len(opened[0].lines)]

\* doRollover: the backups move up, <name>.1 is removed, the log file is
\* renamed to <name>.1, and _open makes a new log file.
doRollover(l) ==
    LET moved == rotate_backups(l.files, backup_count - 1)
        renamed == [moved EXCEPT ![1] = moved[0], ![0] = AbsentFile]
    IN  open_log([l EXCEPT !.files = renamed,
                           !.rollovers = @ + 1,
                           !.rotated = l.files[0].lines])

\* emit: the handler's own test and rollover, then BaseRotatingHandler.emit
\* (the same test a second time, then the record is written to the stream),
\* then line_count += 1.
emit(l, nlines) ==
    LET first == IF shouldRollover(l.line_count) THEN doRollover(l) ELSE l
        second == IF shouldRollover(first.line_count) THEN doRollover(first) ELSE first
        record == l.emitted + 1
    IN  [second EXCEPT
            !.files[0].lines = @ \o [i \in 1..nlines |-> record],
            !.line_count = @ + 1,
            !.emitted = record]

\* logger.info / logger.error on the logger of the handler.
LogEmit ==
    /\ log.emitted < MaxRecords
    /\ \E nlines \in 1..2 : log' = emit(log, nlines)
    /\ UNCHANGED <<svn_content, conv, pool, fs, loop, markerBy, convQueued, call, returned>>

\* The tool is started again: setup_logger makes a new handler on the files
\* as they are.
LogRestart ==
    /\ log.emitted < MaxRecords
    /\ log' = open_log(log)
    /\ UNCHANGED <<svn_content, conv, pool, fs, loop, markerBy, convQueued, call, returned>>

\* setup_logger has made the handler, on a log file that is missing or holds
\* up to MaxOldLines lines, with or without a backup next to it.
InitLog ==
    /\ InitTool
    /\ svn_content = << <<"INIT">> >>
    /\ files = {}
    /\ condDir
    /\ ~condMarker
    /\ \A d \in Leaves : csvCount[d] > CsvThreshold
    /\ call = NoCall
    /\ returned = NoReturn
    /\ \E old \in 0..MaxOldLines, backup \in BOOLEAN :
         log = open_log([NoLog EXCEPT
                           !.files[0] = [exists |-> old > 0,
                                         lines |-> [i \in 1..old |-> 0]],
                           !.files[1] = [exists |-> backup,
                                         lines |-> IF backup THEN <<0>> ELSE << >>]])

NextLog ==
    \/ LogEmit
    \/ LogRestart

SpecLog == InitLog /\ [][NextLog]_vars

TypeOK ==
    /\ pc \in {"sleep", "poll", "error", "oserror", "stdf", "csv", "condition", "stopped"}
    /\ cycle_count \in 0..MaxCycles
    /\ marker \in [Leaves -> BOOLEAN]
    /\ \A d \in Leaves : rawCount[d] \in 0..2
    /\ run.phase \in {"idle", "loop", "done", "raised"}

\* ------------------------------------------------- properties
\* The elements of a list.
Range(list) == { list[i] : i \in 1..Len(list) }

\* How often x is in a list.
Occurrences(list, x) == Cardinality({ i \in 1..Len(list) : list[i] = x })

\* A pass has returned its lists and nothing has been dispatched from the
\* report lists yet: the directory tree is as the pass saw it.
PassReturned == pc = "stdf"

\* C1: while a pass runs and when it has returned, a leaf directory that
\* holds the completion marker is on none of the three work lists, whatever
\* its raw-file count, converted-output count and Report content.
C1_MarkedLeafOnNoList ==
    pc \in {"poll", "stdf"} =>
        \A d \in Leaves :
            marker[d] =>
                /\ d \notin Range(stdf_list)
                /\ d \notin Range(csv_list)
                /\ d \notin Range(condition_list)

\* C1 witness: a pass has returned with another leaf queued, and left out a
\* marked leaf that has one raw file and converted output above the threshold.
C1_Witness ==
    /\ PassReturned
    /\ csv_list # << >>
    /\ \E d \in Leaves :
         /\ marker[d]
         /\ rawCount[d] = 1
         /\ csvCount[d] > CsvThreshold
         /\ ~reportDir[d]

\* C2: no raw-file path is on the conversion list and on the report list of
\* the same pass.
C2_NeverOnBothLists ==
    \A d \in Leaves : ~(d \in Range(stdf_list) /\ d \in Range(csv_list))

\* C2 witness: a pass has returned with one leaf queued for conversion and
\* another queued for report.
C2_Witness ==
    /\ PassReturned
    /\ stdf_list # << >>
    /\ csv_list # << >>

C4_AtOrAboveThreshold ==
    PassReturned =>
        \A d \in Leaves :
            (rawCount[d] = 1 /\ ~marker[d] /\ ~reportDir[d] /\ csvCount[d] >= 8)
                => d \in Range(csv_list)

\* C4 as amended: a leaf with one raw file, no marker, no Report directory
\* and more than 8 converted files is on the report list of a pass that has
\* returned.
C4_AboveThreshold ==
    PassReturned =>
        \A d \in Leaves :
            (rawCount[d] = 1 /\ ~marker[d] /\ ~reportDir[d] /\ csvCount[d] > 8)
                => d \in Range(csv_list)

\* C4 witness: a pass has returned with such a leaf on the report list, next
\* to a leaf with exactly 8 converted files that is not on it.
C4_Witness ==
    /\ PassReturned
    /\ \E d \in Leaves :
         /\ rawCount[d] = 1 /\ ~marker[d] /\ ~reportDir[d] /\ csvCount[d] = 9
         /\ d \in Range(csv_list)
    /\ \E d \in Leaves :
         /\ rawCount[d] = 1 /\ ~marker[d] /\ ~reportDir[d] /\ csvCount[d] = 8
         /\ d \notin Range(csv_list)

\* C5: a leaf with no raw file or more than one is on no work list, was
\* never queued for conversion, is not the item of a Report Stage run and
\* holds no marker written by the Report Stage.
C5_AmbiguousLeafUntouched ==
    \A d \in Leaves :
        rawCount[d] # 1 =>
            /\ d \notin Range(stdf_list)
            /\ d \notin Range(csv_list)
            /\ d \notin Range(condition_list)
            /\ convQueued[d] = 0
            /\ run.path # d
            /\ markerBy[d] # "stage"

\* C5 witness: the loop has gone through a cycle that wrote the marker of
\* another leaf, while a leaf with two raw files and converted output above
\* the threshold stayed without one.
C5_Witness ==
    /\ pc = "sleep"
    /\ cycle_count >= 1
    /\ \E d \in Leaves : markerBy[d] = "stage"
    /\ \E d \in Leaves :
         rawCount[d] = 2 /\ csvCount[d] > CsvThreshold /\ ~marker[d]

\* The name of the report file of a composite of leaf d.
ReportFileName(d, composite) ==
    create_title(get_parameter(d), composite, "CSV2REPORT") \o <<".html">>

\* A rendered HTML file of the composite is below the Report directory of d.
HasRenderedHtml(d, composite) ==
    \E f \in files : f.leaf = d /\ f.file = ReportFileName(d, composite)

\* The Composite Catalog: the two fixed composites and the supplemental ones.
Catalog == <<  <<"YIELD">>, <<"TTIME">> >> \o svn_content

\* C6: with every catalog query answered, a pass that has returned has on
\* its report list every conversion-ready unmarked leaf that has a Report
\* directory and a composite of the catalog whose own HTML file is not below
\* it, whatever HTML files of other composites are there.
C6_MissingReportDetected ==
    (PassReturned /\ failures = 0) =>
        \A d \in Leaves :
            ( /\ rawCount[d] = 1 /\ ~marker[d] /\ csvCount[d] > CsvThreshold
              /\ reportDir[d]
              /\ \E i \in 1..Len(Catalog) : ~HasRenderedHtml(d, Catalog[i]) )
                => d \in Range(csv_list)

\* C7: a leaf whose marker was written by the Report Stage has the report
\* file of every composite of the catalog that is not on the skip-list.
C7_MarkerMeansAllRendered ==
    \A d \in Leaves :
        (marker[d] /\ markerBy[d] = "stage") =>
            \A f \in ToolFiles(d) : f \in files

\* The marker of the directory a run works on.
MarkerOf(r) ==
    IF r.process_type = "CSV2REPORT" THEN marker[r.path] ELSE condMarker

\* C8: a Report Stage run has written its marker only when its loop has
\* gone through every composite and the run has ended; a run still in its
\* loop, or left by an exception, has written none and the marker is as the
\* run found it.
C8_MarkerAfterLoopOnly ==
    /\ run.wrote => (run.phase = "done" /\ run.k > Len(run.composite_list))
    /\ run.phase \in {"loop", "raised"} =>
          (~run.wrote /\ MarkerOf(run) = run.marker0)

\* C8 witness: a run was left in the middle of its loop, after it had
\* rendered a report, and its directory has no marker.
C8_Witness ==
    /\ run.phase = "raised"
    /\ run.process_type = "CSV2REPORT"
    /\ run.k <= Len(run.composite_list)
    /\ files # run.files0
    /\ ~marker[run.path]

\* C9: a Report Stage run on a leaf where the report of every composite that
\* is not on the skip-list exists calls the renderer not once and leaves the
\* marker; it leaves the report files and Report directories as it found
\* them, so that a second run ends in the state the first ended in.
C9_NothingToRender ==
    (run.process_type = "CSV2REPORT" /\ run.allExist0) =>
        /\ run.phase \in {"loop", "done"} =>
              /\ run.renders = << >>
              /\ files = run.files0
              /\ reportDir = run.reportDir0
        /\ run.phase = "done" => marker[run.path]

\* C9 witness: the second of two runs in a row on such a leaf has ended; it
\* found the marker the first had written, and reports to check.
C9_Witness ==
    /\ cycle_count = 2
    /\ run.phase = "done"
    /\ run.process_type = "CSV2REPORT"
    /\ run.allExist0
    /\ run.marker0
    /\ markerBy[run.path] = "stage"
    /\ run.checks >= 3

\* A run that ended with the catalog answered and every render written.
FullySuccessful(r) ==
    /\ r.phase = "done"
    /\ r.process_type = "CSV2REPORT"
    /\ r.composite_list = Catalog
    /\ \A i \in 1..Len(r.renders) : r.renders[i].result = "html"

\* The composites of a list that are on the skip-list of leaf d.
SkipListed(d, composite_list) ==
    { i \in 1..Len(composite_list) :
        \/ composite_list[i] \in {<<"INIT">>, <<"FLH_TOOLS">>}
        \/ /\ UpperTok(LeafSubfolder(d)) = "X30"
           /\ \/ IsSubstring(<<"YIELD">>, composite_list[i])
              \/ IsSubstring(<<"TTIME">>, composite_list[i]) }

\* C10 as stated: a fully successful run has made as many existence checks
\* as the catalog has composites, and its leaf has the marker.
C10_OneCheckPerComposite ==
    FullySuccessful(run) =>
        /\ run.checks = Len(run.composite_list)
        /\ marker[run.path]

\* C10 as amended: a fully successful run has made as many existence checks
\* as the catalog has composites that are not on the skip-list, and its
\* leaf has the marker.
C10_OneCheckPerUnskipped ==
    FullySuccessful(run) =>
        /\ run.checks = Len(run.composite_list)
                          - Cardinality(SkipListed(run.path, run.composite_list))
        /\ marker[run.path]

\* C10 witness: a fully successful run has ended on a leaf with skip-listed
\* composites in its catalog, after it rendered a report.
C10_Witness ==
    /\ FullySuccessful(run)
    /\ SkipListed(run.path, run.composite_list) # {}
    /\ run.checks >= 1
    /\ Len(run.renders) >= 1

\* The dispatch of the report list of the cycle is over.
ReportListDispatched == pc = "condition"

\* C11: with every external call answered, once the report list of the
\* cycle that follows the deletion of a leaf's marker has been dispatched,
\* no such leaf (one raw file, converted output above the threshold) is
\* left with its marker deleted and the report of a composite that is not
\* on the skip-list missing.
C11_DeletedMarkerRegenerates ==
    (ReportListDispatched /\ failures = 0) =>
        \A d \in Leaves :
            ( /\ markerBy[d] = "deleted"
              /\ rawCount[d] = 1
              /\ csvCount[d] > CsvThreshold )
                => \A f \in ToolFiles(d) : f \in files

\* The composites on the skip-list of a run: INIT and FLH_TOOLS, and for a
\* leaf of type X30 also TTIME and YIELD.
OnSkipList(r, composite) ==
    \/ composite \in {<<"INIT">>, <<"FLH_TOOLS">>}
    \/ /\ r.process_type = "CSV2REPORT"
       /\ r.parameter.TYPE = "X30"
       /\ composite \in {<<"TTIME">>, <<"YIELD">>}

\* C12: no Report Stage run has called the renderer for a composite on the
\* skip-list.
C12_SkipListNeverRendered ==
    \A i \in 1..Len(run.renders) : ~OnSkipList(run, run.renders[i].com)

\* C12 witness: a run on the x30 leaf has ended with the marker written; the
\* report files of YIELD and TTIME, which are on its skip-list, were there
\* before it and no other, and it rendered the other composites.
C12_Witness ==
    /\ run.phase = "done"
    /\ run.process_type = "CSV2REPORT"
    /\ run.parameter.TYPE = "X30"
    /\ run.files0 = SkipListFiles(run.path)
    /\ Cardinality(run.files0) = 2
    /\ Len(run.renders) = 2

\* C13: with the catalog [YIELD, TTIME, INIT], a wafer-flow leaf with one raw
\* file that never had a marker and that the first pass queued for
\* conversion is converted when the second pass has returned, and is on the
\* report list of that pass and not on its conversion list.
C13_SecondPassQueuesForReport ==
    (svn_content = << <<"INIT">> >> /\ cycle_count = 2 /\ PassReturned) =>
        \A d \in Leaves :
            ( /\ LeafFlow(d) = "EWS1"
              /\ rawCount[d] = 1
              /\ markerBy[d] = "none"
              /\ convQueued[d] >= 1 )
                => /\ csvCount[d] > CsvThreshold
                   /\ d \in Range(csv_list)
                   /\ d \notin Range(stdf_list)

\* The report path the run tests for a composite of its catalog.
ReportPathOf(r, composite) ==
    get_report_path(DirName(r.path, r.process_type),
                    [r.parameter EXCEPT
                        !.COM = composite,
                        !.TITLE = create_title(r.parameter, composite, r.process_type)],
                    r.process_type)

\* The composites of the run's catalog that it does not skip and whose
\* report was missing when the run began.
ToRender(r) ==
    { r.composite_list[i] : i \in
        { j \in 1..Len(r.composite_list) :
            /\ ~should_skip_composite([r.parameter EXCEPT !.COM = r.composite_list[j]],
                                      r.process_type)
            /\ ReportPathOf(r, r.composite_list[j]) \notin r.files0 } }

\* The run is the one of the item that the dispatch of this cycle has just
\* gone through.
RunJustEnded ==
    /\ pc \in {"csv", "condition"}
    /\ idx > 1
    /\ run.phase = "done"
    /\ run.process_type = ProcessTypeAt(pc)
    /\ run.path = ListAt(pc)[idx - 1]

\* C14: a Report Stage run in which a render failed has, when it ends,
\* called the renderer for every composite it had to render, those after the
\* failed one included, and has written the marker.
C14_RenderFailureIsCaught ==
    ( /\ RunJustEnded
      /\ \E i \in 1..Len(run.renders) : run.renders[i].result # "html" ) =>
        /\ ToRender(run) = { run.renders[i].com : i \in 1..Len(run.renders) }
        /\ run.wrote
        /\ MarkerOf(run)

\* C14 witness: a run has ended with the marker written; its first render
\* wrote nothing and the next one wrote its report.
C14_Witness ==
    /\ RunJustEnded
    /\ Len(run.renders) >= 2
    /\ run.renders[1].result = "nothing"
    /\ run.renders[2].result = "html"
    /\ ReportPathOf(run, run.renders[2].com) \in files
    /\ marker[run.path]

WalkAfter ==
    { Walk[i].at : i \in { j \in (wi + 1)..Len(Walk) : Walk[j].kind = "leaf" } }

\* C16: when the listing of a directory has failed in a pass, every leaf
\* that the walk comes to after that directory and that is ready for the
\* Report Stage (one raw file, no marker, converted output above the
\* threshold, no Report directory) is on the report list of the pass.
C16_ListingFailureSkipsSubtreeOnly ==
    pc = "oserror" =>
        \A d \in WalkAfter :
            ( /\ rawCount[d] = 1
              /\ ~marker[d]
              /\ csvCount[d] > CsvThreshold
              /\ ~reportDir[d] )
                => d \in Range(csv_list)

\* C17: the catalog a Report Stage run works with holds the two fixed
\* composites YIELD and TTIME, whatever became of the external query.
C17_FixedCompositesAlwaysReturned ==
    run.phase \in {"loop", "done"} =>
        /\ <<"YIELD">> \in Range(run.composite_list)
        /\ <<"TTIME">> \in Range(run.composite_list)

\* C18: the loop stops by no step but the operator's interrupt; an error
\* that ends a cycle is followed by the sleep before the next pass; and
\* when process_file raises on an item, the dispatch stays in its list.
C18_OnlyInterruptEndsLoop ==
    [][ /\ (pc' = "stopped" /\ pc # "stopped") => Interrupt
        /\ (pc \in {"error", "oserror"} /\ pc' # pc) => pc' \in {"sleep", "stopped"}
        /\ (run'.phase = "raised" /\ run.phase # "raised" /\ pc' # "stopped")
              => (pc' = pc /\ idx' = idx + 1) ]_vars

\* C18 witness: the loop sleeps after its second cycle, which an error has
\* ended during the pass; in the first cycle process_file had raised on an
\* item of the report list.
C18_Witness ==
    /\ pc = "sleep"
    /\ wi = 0
    /\ cycle_count = 2
    /\ run.phase = "raised"
    /\ run.k = 0

\* The order of the phases of a cycle, the operator's interrupt apart.
PhaseOrder ==
    { <<"sleep", "poll">>, <<"poll", "stdf">>, <<"poll", "error">>,
      <<"poll", "oserror">>, <<"error", "sleep">>, <<"oserror", "sleep">>,
      <<"stdf", "csv">>, <<"csv", "condition">>, <<"condition", "sleep">> }

\* C19: the phases of a cycle follow each other in one order; nothing is
\* dispatched while the traversal runs, and dispatch begins when the walk has
\* come to its end; the conversion list is gone through to its last item
\* before the report list is begun, the report list before the condition
\* list, and the condition list before the loop sleeps for the next pass;
\* within a list the items are taken one by one, in order.
C19_TraverseThenDispatchInOrder ==
    [][ pc' # "stopped" =>
          /\ pc' # pc => <<pc, pc'>> \in PhaseOrder
          /\ pc = "poll" => (run' = run /\ (idx' = 0 \/ pc' = "stdf"))
          /\ (pc = "poll" /\ pc' = "stdf") => (wi > Len(Walk) /\ idx' = 1)
          /\ (pc = "stdf" /\ pc' = "csv") => (idx > Len(stdf_list) /\ idx' = 1)
          /\ (pc = "csv" /\ pc' = "condition")
                => (idx > Len(csv_list) /\ run.phase # "loop" /\ idx' = 1)
          /\ (pc = "condition" /\ pc' = "sleep")
                => (idx > Len(condition_list) /\ run.phase # "loop")
          /\ (pc' = pc /\ pc \in {"stdf", "csv", "condition"})
                => /\ idx' \in {idx, idx + 1}
                   /\ UNCHANGED <<stdf_list, csv_list, condition_list>>
          /\ (run'.phase = "loop" /\ run.phase # "loop")
                => run'.path = ListAt(pc)[idx] ]_vars

\* C19 witness: a cycle has come to its end after it went through a report
\* list of three items and a condition list of one.
C19_Witness ==
    /\ pc = "sleep"
    /\ wi > Len(Walk)
    /\ Len(csv_list) = 3
    /\ Len(condition_list) = 1
    /\ condMarker
    /\ \A d \in {"EWS1/Q1_04/x30", "EWS1/Q1_04/VOLUME"} : markerBy[d] = "stage"

\* C20: when the operator has interrupted the loop, no Report Stage run is
\* left broken off inside its composite loop.
C20_InterruptLetsItemFinish ==
    pc = "stopped" => ~(run.phase = "raised" /\ run.k >= 1)

\* C21: a step that takes a completion marker away, the one of a leaf or
\* the one of the CONDITION directory, is a step of the operator; no step of
\* the traversal, of the conversion dispatch, of the Report Stage or of the
\* condition processing removes a marker that is present.
C21_NoActionRemovesMarker ==
    [][ ((\E d \in Leaves : marker[d] /\ ~marker'[d]) \/ (condMarker /\ ~condMarker'))
          => OperatorDeletesMarker ]_vars

\* C21 witness: after two whole cycles a leaf still has the marker it had
\* when the tool started, and another the marker the Report Stage wrote.
C21_Witness ==
    /\ pc = "sleep"
    /\ cycle_count = 2
    /\ wi > Len(Walk)
    /\ \E d \in Leaves : marker[d] /\ markerBy[d] = "operator"
    /\ \E d \in Leaves : marker[d] /\ markerBy[d] = "stage"

\* C22: no step of the Conversion Stage, whether the converter fails or
\* not, takes a file out of a leaf's csv directory: the directory keeps
\* every file it holds, so its number of tabular files never goes down and a
\* directory above the threshold stays above it.
C22_CsvCountNeverDecreases ==
    [][ \A d \in Leaves :
          /\ csv_folder[d] \subseteq csv_folder'[d]
          /\ csvCount'[d] >= csvCount[d]
          /\ csvCount[d] > CsvThreshold => csvCount'[d] > CsvThreshold ]_vars

\* C22 witness: two conversions are over; the move of one of them
\* failed and left files next to the raw file, and the csv
\* directory still holds more files than the threshold.
C22_Witness ==
    /\ pc = "stdf"
    /\ cycle_count = 2
    /\ idx > Len(stdf_list)
    /\ failures = 1
    /\ \E d \in Leaves :
         /\ stdf_list = << d >>
         /\ stdf_folder[d] # {}
         /\ csvCount[d] > CsvThreshold

\* The title as the claim C23 has it: the composite name in upper case with
\* spaces for underscores, the flow in upper case, the type in lower case.
TitleAsStated(path, composite) ==
    Upper(ReplaceUnderscore(composite))
        \o <<" ", UpperTok(LeafFlow(path)), " ", LowerTok(LeafSubfolder(path))>>

\* C23: the report path tested for a composite that is not skipped is
\* Report\<TITLE>.html for TTIME and for YIELD, and
\* Report\<TYPE in upper case>\<TITLE>.html for every other composite.
C23_ReportPathByComposite ==
    (returned.status = "returned" /\ ~returned.skipped) =>
        /\ returned.TITLE = TitleAsStated(call.path, call.composite)
        /\ returned.report_path =
              [ leaf |-> call.path,
                sub  |-> IF call.composite \in {<<"TTIME">>, <<"YIELD">>}
                         THEN ""
                         ELSE UpperTok(LeafSubfolder(call.path)),
                file |-> TitleAsStated(call.path, call.composite) \o <<".html">> ]

\* The condition artifacts among the files of the CONDITION directory.
ConditionArtifacts == { f \in Range(ConditionListing) : IsConditionArtifact(f) }

\* C24: a condition artifact is on no list but the condition list, which
\* holds nothing else, and it is the Report Stage in its condition mode that
\* handles it; a pass over a CONDITION directory that holds its completion
\* marker returns an empty condition list.
C24_ConditionArtifactsOnConditionListOnly ==
    /\ Range(stdf_list) \cap Range(ConditionListing) = {}
    /\ Range(csv_list) \cap Range(ConditionListing) = {}
    /\ Range(condition_list) \subseteq ConditionArtifacts
    /\ run.phase # "idle" =>
          (run.process_type = "CONDITION2REPORT" <=> run.path \in ConditionArtifacts)
    /\ (PassReturned /\ condMarker) => condition_list = << >>

\* C24 witness: the first cycle handled the artifact of the CONDITION
\* directory and left the marker; the second pass has returned its lists.
C24_Witness ==
    /\ PassReturned
    /\ cycle_count = 2
    /\ condDir
    /\ condMarker
    /\ run.phase = "done"
    /\ run.process_type = "CONDITION2REPORT"
    /\ run.path = "Anaflow.csv"
    /\ condition_list = << >>

\* C25: every path on the report queue was put there by the polling
\* process, which puts a path only when it has found more tabular files than
\* the threshold in the csv directory; no conversion worker puts a path on
\* the report queue.
C25_ReportQueueFedByPollingOnly ==
    \A i \in 1..Len(queue_csv2report) : queue_csv2report[i].by = "polling"

\* C26, for the report pool: a path that is on the report queue can still
\* be taken, that is, a report worker has not ended.  (A worker that has
\* ended takes no step any more, so a path on the queue of a pool all of
\* whose workers have ended is never taken.)
C26_QueuedItemsCanBeTaken ==
    queue_csv2report # << >> =>
        \E w \in Csv2reportWorkers : csv2report_procs[w].at # "dead"

\* C27: a leaf whose csv directory holds more than 8 tabular files is not on
\* the conversion list and was never put on it; a pass that finds it with
\* one raw file and no marker evaluates its reports instead: the leaf is on
\* the report list when it has no Report directory, and when it is on the
\* report list it has no Report directory or lacks a report of its catalog.
C27_ConvertedLeafNeverQueuedForConversion ==
    \A d \in Leaves :
        csvCount[d] > CsvThreshold =>
            /\ d \notin Range(stdf_list)
            /\ convQueued[d] = 0
            /\ (PassReturned /\ rawCount[d] = 1 /\ ~marker[d]) =>
                  /\ ~reportDir[d] => d \in Range(csv_list)
                  /\ d \in Range(csv_list) =>
                        \/ ~reportDir[d]
                        \/ missing_composites(d, get_composite_list("ok")) # {}

\* C27 witness: a leaf that had its converted output when the tool started
\* was never queued for conversion; the Report Stage has gone through it and
\* left its marker, and the next pass has returned.
C27_Witness ==
    /\ PassReturned
    /\ cycle_count = 2
    /\ \E d \in Leaves :
         /\ csvCount[d] > CsvThreshold
         /\ convQueued[d] = 0
         /\ markerBy[d] = "stage"
         /\ reportDir[d]
    /\ stdf_list # << >>

\* C28: no path is more than once on the conversion list, on the report
\* list or on the condition list of a pass, while the pass builds them and
\* when it has returned them.
C28_NoPathTwiceOnAList ==
    /\ \A d \in Leaves :
         /\ Occurrences(stdf_list, d) <= 1
         /\ Occurrences(csv_list, d) <= 1
    /\ \A f \in Range(ConditionListing) : Occurrences(condition_list, f) <= 1

\* C28 witness: a pass has returned one leaf on the conversion list and two
\* on the report list.
C28_Witness ==
    /\ PassReturned
    /\ Len(stdf_list) = 1
    /\ Len(csv_list) = 2
    /\ seen_paths = Range(stdf_list)

\* C29: a step of a discovery pass, its first and its last included, and a
\* pass that ends in an error too, leaves the markers, the raw files, the
\* converted outputs, the Report directories, the report files and the
\* CONDITION directory as they are.
C29_PassChangesNoFile ==
    [][ (pc = "poll" \/ pc' = "poll") => UNCHANGED <<fs, conv>> ]_vars

\* C29 witness: the second pass has returned; it has a leaf on the report
\* list whose Report directory is not there, and the anaflow files on the
\* condition list with no marker next to them.
C29_Witness ==
    /\ PassReturned
    /\ cycle_count = 2
    /\ \E d \in Range(csv_list) : ~reportDir[d] /\ ~marker[d]
    /\ \E d \in Leaves : marker[d] /\ markerBy[d] = "stage"

\* C30: every iteration of the composite loop of a raw-file item, whatever
\* composites were rendered before it in the run, has the parameters, the
\* title, the skip decision and the tested report path that the path of the
\* item and the composite alone give: TYPE, TEST_NUM or CSV set by the
\* renderer for an earlier composite are not in them.
C30_CompositeUnaffectedByEarlierOnes ==
    [][ ( /\ run.phase = "loop"
          /\ run.process_type = "CSV2REPORT"
          /\ run'.phase = "loop"
          /\ run'.k = run.k + 1 )
        => LET composite == run.composite_list[run.k]
               head == composite_head(run.path, composite)
           IN  /\ run'.parameter = ParameterFor(run.path, composite)
               /\ run'.parameter.TITLE = head.TITLE
               /\ (run'.checks = run.checks) <=> head.skipped
               /\ ~head.skipped =>
                    ((run'.renders = run.renders) <=> head.report_path \in files)
      ]_vars

\* C30 witness: the renderer has written the YIELD report of a VOLUME leaf
\* (its copy of the bag had TYPE set to YIELD), has been called for TTIME,
\* and the loop is at a composite of the catalog.
C30_Witness ==
    /\ run.phase = "loop"
    /\ run.process_type = "CSV2REPORT"
    /\ run.parameter.TYPE = "VOLUME"
    /\ Len(run.renders) = 2
    /\ run.renders[1] = [com |-> <<"YIELD">>, result |-> "html"]
    /\ run.renders[2].com = <<"TTIME">>
    /\ run.k = 3
    /\ run.k <= Len(run.composite_list)

\* The number a two-digit name stands for (0 when it is not two digits).
TwoDigits(nn) ==
    LET val == [c \in {"0", "1", "2", "5", "6", "9"} |->
                  CASE c = "0" -> 0 [] c = "1" -> 1 [] c = "2" -> 2
                    [] c = "5" -> 5 [] c = "6" -> 6 [] OTHER -> 9]
    IN  IF Len(nn) = 2 /\ \A i \in 1..2 : nn[i] \in DOMAIN val
        THEN 10 * val[nn[1]] + val[nn[2]]
        ELSE 0

\* The schema of the claim C31 for a directory path.
FollowsSchema(path) ==
    /\ Len(path.product) = 3
    /\ \A i \in 1..3 : path.product[i] \in HexUpper
    /\ \E letter \in UpperLetters : path.productcut = path.product \o <<letter>>
    /\ path.flow \in allowed_flow
    /\ IF StartsWithEWS(path.flow)
       THEN \E nn \in { SubSeq(path.unit, Len(path.parent) + 2, Len(path.unit)) } :
               /\ path.unit = path.parent \o <<"_">> \o nn
               /\ TwoDigits(nn) \in 1..25
       ELSE \E i \in 1..Len(path.parent) : path.parent[i] \in allowed_package
    /\ path.subfolder \in {"VOLUME", "x30"}

\* C31: a pass classifies a directory only if its path follows the schema,
\* and classifies every directory whose path follows it exactly once.
C31_ClassifiedIffSchema ==
    returned.status \in {"classified", "passed over"} =>
        /\ returned.status = "classified" => FollowsSchema(call.path)
        /\ FollowsSchema(call.path) => times_classified(call.path) = 1

\* C32: when the catalog query of a Report Stage run on a leaf has failed,
\* the run calls the renderer for nothing, the dispatch goes on in its list,
\* and the leaf is left without the completion marker, so that the next
\* pass classifies it again.
C32_CatalogFailureNotFinal ==
    ( /\ RunJustEnded
      /\ run.process_type = "CSV2REPORT"
      /\ run.composite_list = << >> ) =>
        /\ run.renders = << >>
        /\ pc = "csv"
        /\ (marker[run.path] => run.marker0)

\* C33: with every external call answered, when the loop sleeps after a
\* cycle, a leaf with exactly one raw file and converted output above the
\* threshold (and a path that parses) holds the completion marker or is one
\* that the next pass puts on the report list, whatever its Report directory
\* holds: no such leaf is left unmarked and passed over, which would keep it
\* unmarked for ever.
C33_ReadyLeafMarkedOrQueuedAgain ==
    (pc = "sleep" /\ cycle_count >= 1 /\ failures = 0) =>
        \A d \in Leaves :
            ( /\ rawCount[d] = 1 /\ csvCount[d] > CsvThreshold /\ ~marker[d]
              /\ ~ParameterRaises(d) ) =>
                /\ check_csv_folder(d).ready
                /\ check_report_folder(d, "ok") = "append"

\* C34: the file the renderer writes for a composite that is not skipped is
\* the file whose existence the Report Stage tests for that composite and
\* directory, so that the test is true after a successful render.
C34_CheckedPathIsWrittenPath ==
    returned.status = "rendered" =>
        returned.report_path = composite_head(call.path, call.composite).report_path

\* How often a raw-file path is pending in the report queue or in the hands
\* of a report worker.
PendingReports(d) ==
    Cardinality({ i \in 1..Len(queue_csv2report) : queue_csv2report[i].path = d })
      + Cardinality({ w \in Csv2reportWorkers :
                        csv2report_procs[w].at = "busy" /\ csv2report_procs[w].path = d })

\* C35: in the worker pools a raw-file path is at most once pending in the
\* report queue or being processed by a report worker.
C35_NoPathPendingTwice ==
    \A d \in Leaves : PendingReports(d) <= 1

\* The report workers that are in their composite loop, where run_report
\* has the renderer write cfg.json and read it.
Rendering == { w \in Csv2reportWorkers : csv2report_procs[w].at = "busy" }

C37_ExtractionNeverRaises ==
    /\ pc # "error"
    /\ ~(run.phase = "raised" /\ ParameterRaises(run.path))

\* The records of a file that were written through a handler.
RecordsOf(file) == { file.lines[i] : i \in 1..Len(file.lines) } \ {0}

\* C38: the log file holds at most max_lines records written through the
\* handler; no backup but <name>.1 is there; and once the handler has
\* rotated, <name>.1 is there and holds what the log file held at the last
\* rotation.
C38_LogBoundedOneBackup ==
    /\ Cardinality(RecordsOf(log.files[0])) <= max_lines
    /\ \A i \in DOMAIN log.files : i > backup_count => ~log.files[i].exists
    /\ log.rollovers > 0 =>
          /\ log.files[1].exists
          /\ log.files[1].lines = log.rotated

\* C38 witness: the handler has rotated twice, the second time a file of
\* max_lines records, and has written one record to the new log file.
C38_Witness ==
    /\ log.rollovers = 2
    /\ Cardinality(RecordsOf(log.files[1])) = max_lines
    /\ Cardinality(RecordsOf(log.files[0])) = 1

====
